---------------------------- MODULE Spec2Model ----------------------------
(***************************************************************************)
(* Model of the Strelka error-analysis aggregator (BasecallErrorCounts)    *)
(* and of the continuous variant caller.                                   *)
(*                                                                         *)
(* std::map<K,V> is a function whose DOMAIN is the set of keys present.    *)
(***************************************************************************)
EXTENDS Integers, Sequences, FiniteSets, TLC

VARIABLES
    agg,          \* agg[p] : BasecallErrorCounts::_data of the aggregator of partition p
    committed,    \* history: committed[p][c] sites added to context c of p (summed by merge)
    lastOp,       \* history: the operation of the last step of SpecSteps
    phase,        \* position of the driver: "scan" (counting) or "export" (estimation)
    exportData,   \* BasecallErrorContextObservationExportData of the last getExportData
    exportStatus, \* how the last getExportData ended: "none", "ok", "assert", "crash"
    exportFrom,   \* <<p, c>>: the aggregator and context of the last getExportData
    siteObs,      \* a BasecallErrorContextInputObservation handed to addObservation
    obsData,      \* the BasecallErrorContextObservationData that received siteObs
    swappedData,  \* the same for siteObs with its two strands exchanged
    recompressed, \* the stored pattern after a second compressCounts
    cpc,          \* position of the canonicalization run: "raw", "stored", "again"
    callerOpt,    \* starling_base_options: min_het_vf (a fraction) and min_qscore
    good_pi,      \* snp_pos_info of the site: its calls tallied by strand and base
    siteLocus,    \* GermlineContinuousSiteLocusInfo of the site
    sitePc,       \* position of the site: "examined", "called"
    indelLocus,   \* GermlineContinuousIndelLocusInfo of the indel locus
    indelCallCount, \* history: add_indel_call calls made on indelLocus
    callArgs,     \* arguments of the library function under call
    callResult,   \* the value it returned
    callPc,       \* position of the call: "idle", "entered", "returned"
    modelArgs,    \* modelName, modelFilename and the content of the file
    indelModel,   \* the IndelErrorModel: _errorRates, _candidateErrorRates, or its failure
    rateQuery,    \* the last getIndelErrorRate: arguments, getRate calls, results
    filters,      \* strelka_filter_keeper::_filters, the set of the ids whose bit is 1
    filterFault,  \* the assertion the keeper failed, "none" while it runs
    os,           \* the pieces the last call on the keeper put on an output stream
    filterOp,     \* history: the last call on the keeper
    cleared       \* history: the lowest filter the last clear() removed

scanVars == <<agg, committed, lastOp, phase, exportData, exportStatus, exportFrom>>

compressVars == <<siteObs, obsData, swappedData, recompressed, cpc>>

siteVars == <<good_pi, siteLocus, sitePc>>

indelVars == <<indelLocus, indelCallCount>>

callerVars == <<callerOpt, good_pi, siteLocus, sitePc, indelLocus, indelCallCount>>

callVars == <<callArgs, callResult, callPc>>

modelVars == <<modelArgs, indelModel, rateQuery>>

keeperVars == <<filters, filterFault, os, filterOp, cleared>>

libVars == <<callArgs, callResult, callPc, modelArgs, indelModel, rateQuery,
             filters, filterFault, os, filterOp, cleared>>

vars == <<agg, committed, lastOp, phase, exportData, exportStatus, exportFrom,
          siteObs, obsData, swappedData, recompressed, cpc,
          callerOpt, good_pi, siteLocus, sitePc, indelLocus, indelCallCount,
          callArgs, callResult, callPc, modelArgs, indelModel, rateQuery,
          filters, filterFault, os, filterOp, cleared>>

-----------------------------------------------------------------------------
(* Bounds of the model *)

\* sites and skips recorded over all aggregators together (merges included)
MaxTotal == 3

\* the genome partitions, each scanned into its own aggregator
Partitions == {1, 2, 3}

\* the contexts, named by BasecallErrorContext::repeatCount
Contexts == {1, 2}

\* basecall error phred levels that occur in the observations
Quals == {20, 30}

-----------------------------------------------------------------------------
(* Generic helpers *)

EmptyMap == [k \in {} |-> 0]

MapGet(m, k) == IF k \in DOMAIN m THEN m[k] ELSE 0

RECURSIVE SetSum(_, _)
SetSum(S, m) ==
    IF S = {} THEN 0
    ELSE LET k == CHOOSE x \in S : TRUE IN m[k] + SetSum(S \ {k}, m)

\* sum of the values of a map
MapSum(m) == SetSum(DOMAIN m, m)

\* the keys of an integer-keyed map in ascending order
RECURSIVE SortedSeq(_)
SortedSeq(S) ==
    IF S = {} THEN << >>
    ELSE LET lo == CHOOSE x \in S : \A y \in S : x <= y
         IN <<lo>> \o SortedSeq(S \ {lo})

\* errorAnalysisUtils.hh: increment the value of key k, inserting it at 0 first
iterateMapValue(m, k) ==
    [x \in DOMAIN m \cup {k} |-> IF x = k THEN MapGet(m, k) + 1 ELSE m[x]]

\* errorAnalysisUtils.hh: add every value of m1 into m2, inserting absent keys
mergeMapKeys(m1, m2) ==
    [x \in DOMAIN m1 \cup DOMAIN m2 |-> MapGet(m2, x) + MapGet(m1, x)]

-----------------------------------------------------------------------------
(* blt_util/IntegerLogCompressor.hh *)

RECURSIVE BitLength(_)
BitLength(n) == IF n = 0 THEN 0 ELSE 1 + BitLength(n \div 2)

\* keep the bitCount most significant bits of input
compressInt(input, bitCount) ==
    IF BitLength(input) <= bitCount THEN input
    ELSE LET shift == BitLength(input) - bitCount
         IN (input \div (2 ^ shift)) * (2 ^ shift)

\* StrandBasecallCounts::compressCounts, static const unsigned bitCount(4)
bitCount == 4

-----------------------------------------------------------------------------
(* StrandBasecallCounts : [refAlleleCount, altAlleleCount : qual -> count] *)

EmptyStrand == [refAlleleCount |-> 0, altAlleleCount |-> EmptyMap]

StrandBasecallCounts_compressCounts(s) ==
    [refAlleleCount |-> compressInt(s.refAlleleCount, bitCount),
     altAlleleCount |-> [q \in DOMAIN s.altAlleleCount |->
                            compressInt(s.altAlleleCount[q], bitCount)]]

\* std::map operator< : lexicographic over the (key, value) pairs in key order
RECURSIVE PairSeqLess(_, _)
PairSeqLess(a, b) ==
    IF b = << >> THEN FALSE
    ELSE IF a = << >> THEN TRUE
    ELSE LET x == Head(a)
             y == Head(b)
         IN IF x[1] < y[1] \/ (x[1] = y[1] /\ x[2] < y[2]) THEN TRUE
            ELSE IF y[1] < x[1] \/ (y[1] = x[1] /\ y[2] < x[2]) THEN FALSE
            ELSE PairSeqLess(Tail(a), Tail(b))

MapPairs(m) ==
    LET ks == SortedSeq(DOMAIN m)
    IN [i \in 1..Len(ks) |-> <<ks[i], m[ks[i]]>>]

MapLess(m1, m2) == PairSeqLess(MapPairs(m1), MapPairs(m2))

\* StrandBasecallCounts::operator< : the total order used to canonicalize
StrandLess(a, b) ==
    IF a.refAlleleCount < b.refAlleleCount THEN TRUE
    ELSE IF a.refAlleleCount # b.refAlleleCount THEN FALSE
    ELSE MapLess(a.altAlleleCount, b.altAlleleCount)

-----------------------------------------------------------------------------
(* BasecallErrorContextObservation : [strand0, strand1] *)

\* mutant: the strands are ordered before their counts are compressed
BasecallErrorContextObservation_compressCounts_orderFirst(o) ==
    LET noAlt == o.strand0.altAlleleCount = EmptyMap /\ o.strand1.altAlleleCount = EmptyMap
        s0 == IF noAlt
              THEN [o.strand0 EXCEPT !.refAlleleCount = @ + o.strand1.refAlleleCount]
              ELSE o.strand0
        s1 == IF noAlt THEN [o.strand1 EXCEPT !.refAlleleCount = 0] ELSE o.strand1
        c0 == StrandBasecallCounts_compressCounts(s0)
        c1 == StrandBasecallCounts_compressCounts(s1)
    IN IF StrandLess(s0, s1)
       THEN [strand0 |-> c1, strand1 |-> c0]
       ELSE [strand0 |-> c0, strand1 |-> c1]

\* mutant: the reference counts are summed after they are compressed
BasecallErrorContextObservation_compressCounts_sumLast(o) ==
    LET noAlt == o.strand0.altAlleleCount = EmptyMap /\ o.strand1.altAlleleCount = EmptyMap
        k0 == StrandBasecallCounts_compressCounts(o.strand0)
        k1 == StrandBasecallCounts_compressCounts(o.strand1)
        c0 == IF noAlt THEN [k0 EXCEPT !.refAlleleCount = @ + k1.refAlleleCount] ELSE k0
        c1 == IF noAlt THEN [k1 EXCEPT !.refAlleleCount = 0] ELSE k1
    IN IF StrandLess(c0, c1)
       THEN [strand0 |-> c1, strand1 |-> c0]
       ELSE [strand0 |-> c0, strand1 |-> c1]

BasecallErrorContextObservation_compressCounts(o) ==
    LET noAlt == o.strand0.altAlleleCount = EmptyMap /\ o.strand1.altAlleleCount = EmptyMap
        s0 == IF noAlt
              THEN [o.strand0 EXCEPT !.refAlleleCount = @ + o.strand1.refAlleleCount]
              ELSE o.strand0
        s1 == IF noAlt THEN [o.strand1 EXCEPT !.refAlleleCount = 0] ELSE o.strand1
        c0 == StrandBasecallCounts_compressCounts(s0)
        c1 == StrandBasecallCounts_compressCounts(s1)
    IN IF StrandLess(c0, c1)
       THEN [strand0 |-> c1, strand1 |-> c0]
       ELSE [strand0 |-> c0, strand1 |-> c1]

\* addObservation, the loop over the strands: the observation before compressCounts
BuildObservation(obs) ==
    [strand0 |-> [refAlleleCount |-> MapSum(obs.ref[0]), altAlleleCount |-> obs.alt[0]],
     strand1 |-> [refAlleleCount |-> MapSum(obs.ref[1]), altAlleleCount |-> obs.alt[1]]]

-----------------------------------------------------------------------------
(* BasecallErrorContextObservationData : [data, refAlleleBasecallErrorPhredProbs] *)

EmptyObservationData == [data |-> EmptyMap, refAlleleBasecallErrorPhredProbs |-> EmptyMap]

\* mutant: the pattern is counted inside the loop over the strands
addObservation_countedPerStrand(cd, obs) ==
    LET refQ == mergeMapKeys(obs.ref[1],
                    mergeMapKeys(obs.ref[0], cd.refAlleleBasecallErrorPhredProbs))
        compressedObs == BasecallErrorContextObservation_compressCounts(BuildObservation(obs))
    IN [data |-> iterateMapValue(iterateMapValue(cd.data, compressedObs), compressedObs),
        refAlleleBasecallErrorPhredProbs |-> refQ]

addObservation(cd, obs) ==
    LET refQ == mergeMapKeys(obs.ref[1],
                    mergeMapKeys(obs.ref[0], cd.refAlleleBasecallErrorPhredProbs))
        compressedObs == BasecallErrorContextObservation_compressCounts(BuildObservation(obs))
    IN [data |-> iterateMapValue(cd.data, compressedObs),
        refAlleleBasecallErrorPhredProbs |-> refQ]

BasecallErrorContextObservationData_merge(cd, in) ==
    [data |-> mergeMapKeys(in.data, cd.data),
     refAlleleBasecallErrorPhredProbs |->
        mergeMapKeys(in.refAlleleBasecallErrorPhredProbs, cd.refAlleleBasecallErrorPhredProbs)]

-----------------------------------------------------------------------------
(* BasecallErrorData : counts and the four skip counters *)

EmptyErrorData ==
    [counts |-> EmptyObservationData,
     excludedRegionSkipped |-> 0, depthSkipped |-> 0,
     emptySkipped |-> 0, noiseSkipped |-> 0]

\* mutant: one skip counter is not added
BasecallErrorData_merge_noiseDropped(d, in) ==
    [counts |-> BasecallErrorContextObservationData_merge(d.counts, in.counts),
     excludedRegionSkipped |-> d.excludedRegionSkipped + in.excludedRegionSkipped,
     depthSkipped |-> d.depthSkipped + in.depthSkipped,
     emptySkipped |-> d.emptySkipped + in.emptySkipped,
     noiseSkipped |-> d.noiseSkipped]

BasecallErrorData_merge(d, in) ==
    [counts |-> BasecallErrorContextObservationData_merge(d.counts, in.counts),
     excludedRegionSkipped |-> d.excludedRegionSkipped + in.excludedRegionSkipped,
     depthSkipped |-> d.depthSkipped + in.depthSkipped,
     emptySkipped |-> d.emptySkipped + in.emptySkipped,
     noiseSkipped |-> d.noiseSkipped + in.noiseSkipped]

-----------------------------------------------------------------------------
(* BasecallErrorCounts : _data, a map context -> BasecallErrorData *)

\* _data after getContextIterator(context): the context is inserted if absent
getContextIterator(a, context) ==
    [c \in DOMAIN a \cup {context} |-> IF c \in DOMAIN a THEN a[c] ELSE EmptyErrorData]

addSiteObservation(a, context, siteObservation) ==
    LET d == getContextIterator(a, context)
    IN [d EXCEPT ![context].counts = addObservation(@, siteObservation)]

addExcludedRegionSkip(a, context) ==
    [getContextIterator(a, context) EXCEPT ![context].excludedRegionSkipped = @ + 1]

addDepthSkip(a, context) ==
    [getContextIterator(a, context) EXCEPT ![context].depthSkipped = @ + 1]

\* mutant: the depth counter moves with the empty counter
addEmptySkip_alsoDepth(a, context) ==
    [getContextIterator(a, context) EXCEPT ![context].emptySkipped = @ + 1,
                                           ![context].depthSkipped = @ + 1]

addEmptySkip(a, context) ==
    [getContextIterator(a, context) EXCEPT ![context].emptySkipped = @ + 1]

addNoiseSkip(a, context) ==
    [getContextIterator(a, context) EXCEPT ![context].noiseSkipped = @ + 1]

\* mutant: a context present on both sides is overwritten by the incoming one
BasecallErrorCounts_merge_overwrite(a, in) ==
    [c \in DOMAIN a \cup DOMAIN in |-> IF c \in DOMAIN in THEN in[c] ELSE a[c]]

BasecallErrorCounts_merge(a, in) ==
    [c \in DOMAIN a \cup DOMAIN in |->
        IF c \notin DOMAIN a THEN in[c]
        ELSE IF c \in DOMAIN in THEN BasecallErrorData_merge(a[c], in[c])
        ELSE a[c]]

-----------------------------------------------------------------------------
(* Site observations fed to the aggregators *)

QualMap(q, n) == [k \in (IF n > 0 THEN {q} ELSE {}) |-> n]

\* BasecallErrorContextInputObservation : ref[2], alt[2], each qual -> count, built by
\* addRefCount / addAltCount (every stored count is positive)
SiteObs(r0, r1, a0, a1) ==
    [ref |-> [s \in 0..1 |-> IF s = 0 THEN r0 ELSE r1],
     alt |-> [s \in 0..1 |-> IF s = 0 THEN a0 ELSE a1]]

\* a map qual -> count from a vector of counts: only positive counts are stored
VecMap(v) == [q \in {k \in Quals : v[k] > 0} |-> v[q]]

\* the sites of the scan: reference only; one alt on the forward strand; its
\* strand-swapped twin; a deep reference-only site over two quality levels
SiteObservations ==
    { SiteObs(QualMap(20, 1), QualMap(20, 1), EmptyMap, EmptyMap),
      SiteObs(QualMap(20, 2), EmptyMap, QualMap(30, 1), EmptyMap),
      SiteObs(EmptyMap, QualMap(20, 2), EmptyMap, QualMap(30, 1)),
      SiteObs(mergeMapKeys(QualMap(20, 17), QualMap(30, 1)), QualMap(20, 1), EmptyMap, EmptyMap) }

-----------------------------------------------------------------------------
(* Totals *)

SkipTotal(d) == d.excludedRegionSkipped + d.depthSkipped + d.emptySkipped + d.noiseSkipped

\* sum of the pattern occurrence counts of context c in aggregator a (0 if absent)
PatternTotal(a, c) == IF c \in DOMAIN a THEN MapSum(a[c].counts.data) ELSE 0

AggTotal(a) == SetSum(DOMAIN a, [c \in DOMAIN a |-> PatternTotal(a, c) + SkipTotal(a[c])])

AllTotal == SetSum(Partitions, [p \in Partitions |-> AggTotal(agg[p])])

-----------------------------------------------------------------------------
(* The scan: one action per operation of BasecallErrorCounts *)

EmptyExportData ==
    [altAlleleBasecallErrorPhredProbLevels |-> << >>, refCount |-> << >>,
     observations |-> EmptyMap]

ScanInit ==
    /\ agg = [p \in Partitions |-> EmptyMap]
    /\ committed = [p \in Partitions |-> [c \in Contexts |-> 0]]
    /\ lastOp = "init"
    /\ phase = "scan"
    /\ exportData = EmptyExportData
    /\ exportStatus = "none"
    /\ exportFrom = << >>

\* the driver records one more site or skip while the scan lasts
CanRecord == phase = "scan" /\ AllTotal < MaxTotal

AddSiteObservation(p, c, obs) ==
    /\ agg' = [agg EXCEPT ![p] = addSiteObservation(@, c, obs)]
    /\ committed' = [committed EXCEPT ![p][c] = @ + 1]
    /\ UNCHANGED <<phase, exportData, exportStatus, exportFrom>>

AddExcludedRegionSkip(p, c) ==
    /\ agg' = [agg EXCEPT ![p] = addExcludedRegionSkip(@, c)]
    /\ UNCHANGED <<committed, phase, exportData, exportStatus, exportFrom>>

AddDepthSkip(p, c) ==
    /\ agg' = [agg EXCEPT ![p] = addDepthSkip(@, c)]
    /\ UNCHANGED <<committed, phase, exportData, exportStatus, exportFrom>>

AddEmptySkip(p, c) ==
    /\ agg' = [agg EXCEPT ![p] = addEmptySkip(@, c)]
    /\ UNCHANGED <<committed, phase, exportData, exportStatus, exportFrom>>

AddNoiseSkip(p, c) ==
    /\ agg' = [agg EXCEPT ![p] = addNoiseSkip(@, c)]
    /\ UNCHANGED <<committed, phase, exportData, exportStatus, exportFrom>>

MergeUpdate(p, q) ==
    /\ p # q
    /\ agg' = [agg EXCEPT ![p] = BasecallErrorCounts_merge(@, agg[q])]

\* agg[p].merge(agg[q])
Merge(p, q) ==
    /\ AllTotal + AggTotal(agg[q]) <= MaxTotal
    /\ MergeUpdate(p, q)
    /\ committed' = [committed EXCEPT ![p] = [c \in Contexts |-> @[c] + committed[q][c]]]
    /\ UNCHANGED <<phase, exportData, exportStatus, exportFrom>>

AddSite ==
    /\ CanRecord
    /\ UNCHANGED <<lastOp, compressVars, callerVars, libVars>>
    /\ \E p \in Partitions, c \in Contexts, obs \in SiteObservations : AddSiteObservation(p, c, obs)

ExcludedRegionSkip ==
    /\ CanRecord
    /\ UNCHANGED <<lastOp, compressVars, callerVars, libVars>>
    /\ \E p \in Partitions, c \in Contexts : AddExcludedRegionSkip(p, c)

DepthSkip ==
    /\ CanRecord
    /\ UNCHANGED <<lastOp, compressVars, callerVars, libVars>>
    /\ \E p \in Partitions, c \in Contexts : AddDepthSkip(p, c)

EmptySkip ==
    /\ CanRecord
    /\ UNCHANGED <<lastOp, compressVars, callerVars, libVars>>
    /\ \E p \in Partitions, c \in Contexts : AddEmptySkip(p, c)

NoiseSkip ==
    /\ CanRecord
    /\ UNCHANGED <<lastOp, compressVars, callerVars, libVars>>
    /\ \E p \in Partitions, c \in Contexts : AddNoiseSkip(p, c)

MergePartitions ==
    /\ phase = "scan"
    /\ UNCHANGED <<lastOp, compressVars, callerVars, libVars>>
    /\ \E p \in Partitions, q \in Partitions : Merge(p, q)

\* The same operations on the two aggregators of Workers, the operation of each
\* step being recorded in lastOp.
Workers == Partitions \ {3}

StepAddSite ==
    /\ CanRecord
    /\ lastOp' = "addSiteObservation"
    /\ UNCHANGED <<compressVars, callerVars, libVars>>
    /\ \E p \in Workers, c \in Contexts, obs \in SiteObservations : AddSiteObservation(p, c, obs)

StepExcludedRegionSkip ==
    /\ CanRecord
    /\ lastOp' = "addExcludedRegionSkip"
    /\ UNCHANGED <<compressVars, callerVars, libVars>>
    /\ \E p \in Workers, c \in Contexts : AddExcludedRegionSkip(p, c)

StepDepthSkip ==
    /\ CanRecord
    /\ lastOp' = "addDepthSkip"
    /\ UNCHANGED <<compressVars, callerVars, libVars>>
    /\ \E p \in Workers, c \in Contexts : AddDepthSkip(p, c)

StepEmptySkip ==
    /\ CanRecord
    /\ lastOp' = "addEmptySkip"
    /\ UNCHANGED <<compressVars, callerVars, libVars>>
    /\ \E p \in Workers, c \in Contexts : AddEmptySkip(p, c)

StepNoiseSkip ==
    /\ CanRecord
    /\ lastOp' = "addNoiseSkip"
    /\ UNCHANGED <<compressVars, callerVars, libVars>>
    /\ \E p \in Workers, c \in Contexts : AddNoiseSkip(p, c)

StepMerge ==
    /\ phase = "scan"
    /\ lastOp' = "merge"
    /\ UNCHANGED <<compressVars, callerVars, libVars>>
    /\ \E p \in Workers, q \in Workers : Merge(p, q)

-----------------------------------------------------------------------------
(* BasecallErrorContextObservationData::getExportData *)

\* sites and merged sites held by the aggregators when the export starts
MaxExportSites == 2

\* the basecall error levels of the export: those of the reference observations only
ExportLevels(cd) == SortedSeq(DOMAIN cd.refAlleleBasecallErrorPhredProbs)

\* qualIndex: the array index of a level
QualIndex(levels, qual) == CHOOSE i \in 1..Len(levels) : levels[i] = qual

\* the levels of the alt maps of the stored patterns
AltLevels(cd) ==
    UNION {DOMAIN pat.strand0.altAlleleCount \cup DOMAIN pat.strand1.altAlleleCount :
              pat \in DOMAIN cd.data}

\* qualIndex.find(qual)->second is evaluated at qualIndex.end() for some alt level
DereferencesEnd(cd) == \E q \in AltLevels(cd) : q \notin DOMAIN cd.refAlleleBasecallErrorPhredProbs

\* What the read of qualIndex.end()->second can give: an index inside the alt-count
\* array, or one outside it, where the write leaves the array as it is ("out") or
\* ends the process ("crash"). The read gives the same value all through one call.
WildIndexes(n) ==
    {[kind |-> "in", index |-> i] : i \in 1..n}
        \cup {[kind |-> "out", index |-> 0], [kind |-> "crash", index |-> 0]}

WildOut == [kind |-> "out", index |-> 0]

\* se.altAlleleCount after the writes of one strand, in key order
RECURSIVE WriteAlts(_, _, _, _, _)
WriteAlts(vec, keys, altMap, levels, wild) ==
    IF keys = << >> THEN vec
    ELSE LET q == Head(keys)
             known == \E i \in 1..Len(levels) : levels[i] = q
             idx == IF known THEN QualIndex(levels, q) ELSE wild.index
             next == IF idx \in 1..Len(vec) THEN [vec EXCEPT ![idx] = altMap[q]] ELSE vec
         IN WriteAlts(next, Tail(keys), altMap, levels, wild)

\* the lambda strand2ExportStrand
strand2ExportStrand(si, levels, wild) ==
    [refAlleleCount |-> si.refAlleleCount,
     altAlleleCount |-> WriteAlts([i \in 1..Len(levels) |-> 0],
                                  SortedSeq(DOMAIN si.altAlleleCount),
                                  si.altAlleleCount, levels, wild)]

ExportPattern(pat, levels, wild) ==
    [strand0 |-> strand2ExportStrand(pat.strand0, levels, wild),
     strand1 |-> strand2ExportStrand(pat.strand1, levels, wild)]

\* the assert of getExportData fails: two stored patterns give one exported pattern
ExportCollision(cd, levels, wild) ==
    \E a \in DOMAIN cd.data, b \in DOMAIN cd.data :
        a # b /\ ExportPattern(a, levels, wild) = ExportPattern(b, levels, wild)

\* <<exportData, status>> of getExportData on cd, wild being the value read at end()
getExportData(cd, wild) ==
    LET levels == ExportLevels(cd)
        head == [altAlleleBasecallErrorPhredProbLevels |-> levels,
                 refCount |-> [i \in 1..Len(levels) |->
                                  cd.refAlleleBasecallErrorPhredProbs[levels[i]]],
                 observations |-> EmptyMap]
        exported == {ExportPattern(pat, levels, wild) : pat \in DOMAIN cd.data}
        source(e) == CHOOSE pat \in DOMAIN cd.data : ExportPattern(pat, levels, wild) = e
    IN IF DereferencesEnd(cd) /\ wild.kind = "crash" THEN <<head, "crash">>
       ELSE IF ExportCollision(cd, levels, wild) THEN <<head, "assert">>
       ELSE <<[head EXCEPT !.observations = [e \in exported |-> cd.data[source(e)]]], "ok">>

\* the sites of the export scan: reference calls on the forward strand at any set
\* of levels, and none, one or two alt calls at one level of the forward strand
ExportSiteObservations ==
    { SiteObs(VecMap(r0), EmptyMap, a0, EmptyMap) :
        r0 \in [Quals -> {0, 1}],
        a0 \in {EmptyMap, QualMap(20, 1), QualMap(30, 1), QualMap(30, 2)} }

AddSiteForExport ==
    /\ phase = "scan"
    /\ UNCHANGED <<lastOp, compressVars, callerVars, libVars>>
    /\ AllTotal < MaxExportSites
    /\ \E p \in Workers, c \in Contexts, obs \in ExportSiteObservations :
          AddSiteObservation(p, c, obs)

MergeForExport ==
    /\ phase = "scan"
    /\ UNCHANGED <<lastOp, compressVars, callerVars, libVars>>
    /\ \E p \in Workers, q \in Workers :
          /\ AllTotal + AggTotal(agg[q]) <= MaxExportSites
          /\ AggTotal(agg[q]) > 0
          /\ MergeUpdate(p, q)
          /\ committed' = [committed EXCEPT ![p] = [c \in Contexts |-> @[c] + committed[q][c]]]
          /\ UNCHANGED <<phase, exportData, exportStatus, exportFrom>>

\* agg[p]'s counts of context c are exported; the scan is over
GetExportData(p, c, wild) ==
    /\ c \in DOMAIN agg[p]
    /\ LET cd == agg[p][c].counts
           n == Len(ExportLevels(cd))
       IN /\ wild \in (IF DereferencesEnd(cd) THEN WildIndexes(n) ELSE {WildOut})
          /\ exportData' = getExportData(cd, wild)[1]
          /\ exportStatus' = getExportData(cd, wild)[2]
    /\ exportFrom' = <<p, c>>
    /\ phase' = "export"
    /\ UNCHANGED <<agg, committed>>

ExportContext ==
    /\ UNCHANGED <<lastOp, compressVars, callerVars, libVars>>
    /\ \E p \in Workers, c \in Contexts, wild \in WildIndexes(Cardinality(Quals)) :
          GetExportData(p, c, wild)

-----------------------------------------------------------------------------
(* Canonicalization of one site observation *)

\* alt counts of the canonicalization inputs are 0..MaxAltCount and 17
MaxAltCount == 1

RefVals == {0, 1, 8, 9, 17}

AltVals == (0..MaxAltCount) \cup {17}

WideSiteObservations ==
    { SiteObs(VecMap(r0), VecMap(r1), VecMap(a0), VecMap(a1)) :
        r0 \in [Quals -> RefVals], r1 \in [Quals -> RefVals],
        a0 \in [Quals -> AltVals], a1 \in [Quals -> AltVals] }

SwapStrands(obs) == SiteObs(obs.ref[1], obs.ref[0], obs.alt[1], obs.alt[0])

EmptyObservation == [strand0 |-> EmptyStrand, strand1 |-> EmptyStrand]

\* the pattern stored by the one addObservation of the run
StoredPattern(cd) == CHOOSE pat \in DOMAIN cd.data : TRUE

CompressInit ==
    /\ siteObs \in WideSiteObservations
    /\ obsData = EmptyObservationData
    /\ swappedData = EmptyObservationData
    /\ recompressed = EmptyObservation
    /\ cpc = "raw"

CompressIdle ==
    /\ siteObs = SiteObs(EmptyMap, EmptyMap, EmptyMap, EmptyMap)
    /\ obsData = EmptyObservationData
    /\ swappedData = EmptyObservationData
    /\ recompressed = EmptyObservation
    /\ cpc = "raw"

\* addObservation(siteObs) on an empty table, and on another for the swapped strands
StoreObservation ==
    /\ cpc = "raw"
    /\ obsData' = addObservation(obsData, siteObs)
    /\ swappedData' = addObservation(swappedData, SwapStrands(siteObs))
    /\ cpc' = "stored"
    /\ UNCHANGED <<siteObs, recompressed>>
    /\ UNCHANGED <<scanVars, callerVars, libVars>>

\* compressCounts applied to the stored pattern
CompressAgain ==
    /\ cpc = "stored"
    /\ recompressed' = BasecallErrorContextObservation_compressCounts(StoredPattern(obsData))
    /\ cpc' = "again"
    /\ UNCHANGED <<siteObs, obsData, swappedData>>
    /\ UNCHANGED <<scanVars, callerVars, libVars>>

-----------------------------------------------------------------------------
(* Continuous variant caller: significance score and strand bias           *)
(*                                                                         *)
(* A p-value p in (0, 1] is held as round(-10000 * log10(p)), a log        *)
(* likelihood as round(1000000 * ln(L)); zero, minus infinity and NaN are  *)
(* kinds of their own.                                                     *)

\* the bases, BASE_ID::index_t 0 .. N_BASE - 1
Bases == {0, 1, 2, 3}

\* the cap the two callers pass to poisson_qscore
MaxQScore == 40

\* gamma_p(count, coverage * qphred_to_error_prob(17)) for
\* 1 <= count <= coverage <= 18, as GammaPTable[coverage][count]
GammaPTable ==
    << <<17043>>,
       <<14076, 31105>>,
       <<12358, 27641, 44663>>,
       <<11152, 25199, 40979, 57997>>,
       <<10225, 23319, 38137, 54189, 71204>>,
       <<9476, 21792, 35826, 51091, 67317, 84329>>,
       <<8849, 20510, 33882, 48482, 64042, 80387, 97398>>,
       <<8311, 19408, 32207, 46232, 61214, 76981, 93414, 110424>>,
       <<7842, 18441, 30736, 44254, 58728, 73986, 89909, 106408, 123417>>,
       <<7426, 17583, 29428, 42493, 56512, 71315, 86781, 102825, 119377,
          136385>>,
       <<7054, 16812, 28251, 40906, 54514, 68905, 83960, 99590, 115729,
          132324, 149331>>,
       <<6718, 16113, 27181, 39463, 52697, 66712, 81390, 96644, 112406,
          128624, 145254, 162261>>,
       <<6412, 15474, 26203, 38142, 51030, 64700, 79032, 93940, 109355,
          125226, 141510, 158169, 175176>>,
       <<6131, 14887, 25301, 36923, 49493, 62843, 76855, 91442, 106537,
          122087, 138049, 154387, 171072, 188078>>,
       <<5873, 14344, 24466, 35793, 48066, 61119, 74833, 89121, 103918,
          119169, 134832, 150871, 167257, 183964, 200969>>,
       <<5634, 13840, 23689, 34740, 46737, 59511, 72946, 86956, 101473,
          116444, 131828, 147588, 163694, 180120, 196846, 213851>>,
       <<5411, 13369, 22963, 33756, 45492, 58005, 71179, 84926, 99181,
          113890, 129011, 144508, 160351, 176515, 192978, 209720, 226725>>,
       <<5204, 12929, 22282, 32831, 44322, 56590, 69517, 83017, 97025,
          111486, 126360, 141609, 157204, 173121, 189335, 205830, 222587,
          239591>> >>

\* the same for the deep loci of the scenarios, keyed by <<count, coverage>>
GammaPDeep ==
    [cc \in {<<10, 100>>, <<90, 100>>, <<10, 102>>, <<90, 102>>,
             <<50, 100>>, <<97, 100>>, <<300, 300>>} |->
        CASE cc = <<10, 100>> -> 43410
          [] cc = <<90, 100>> -> 1120385
          [] cc = <<10, 102>> -> 42705
          [] cc = <<90, 102>> -> 1112818
          [] cc = <<50, 100>> -> 503323
          [] cc = <<97, 100>> -> 1237497
          [] cc = <<300, 300>> -> 3839490]

\* boost::math::gamma_p(observedCallCount, coverage * errorRate), tabulated
\* for the one base-call quality the model configures
gamma_p(observedCallCount, coverage, estimatedBaseCallQuality) ==
    CASE estimatedBaseCallQuality = 17 /\ coverage <= Len(GammaPTable) ->
            GammaPTable[coverage][observedCallCount]
      [] estimatedBaseCallQuality = 17 /\ coverage > Len(GammaPTable) ->
            GammaPDeep[<<observedCallCount, coverage>>]

PValueOne == [kind |-> "positive", mdb |-> 0]

\* the smallest positive double, 2^-1074, on the scale of the p-values;
\* a smaller result underflows to 0
DoubleMinMdb == 3233062

PValueZero == [kind |-> "zero", mdb |-> 0]

AssignPValue(observedCallCount, coverage, estimatedBaseCallQuality) ==
    IF observedCallCount = 0 THEN PValueOne
    ELSE LET p == gamma_p(observedCallCount, coverage, estimatedBaseCallQuality)
         IN  IF p > DoubleMinMdb THEN PValueZero
             ELSE [kind |-> "positive", mdb |-> p]

\* round(-10 log10 p), the rounding being floor(x + 0.5)
error_prob_to_qphred(pValue) == (pValue.mdb + 500) \div 1000

Min(a, b) == IF a < b THEN a ELSE b

Max(a, b) == IF a < b THEN b ELSE a

\* poisson_qscore without the cap on the score of a positive p-value
poisson_qscore_uncapped(callCount, coverage, estimatedBaseCallQuality, maxQScore) ==
    LET pValue == AssignPValue(callCount, coverage, estimatedBaseCallQuality)
    IN  IF pValue.kind = "zero" THEN maxQScore
        ELSE error_prob_to_qphred(pValue)

poisson_qscore(callCount, coverage, estimatedBaseCallQuality, maxQScore) ==
    LET pValue == AssignPValue(callCount, coverage, estimatedBaseCallQuality)
    IN  IF pValue.kind = "zero" THEN maxQScore
        ELSE Min(maxQScore, error_prob_to_qphred(pValue))

\* round(1000000 * ln(i)) for i in 1 .. 110
LnTable ==
    << 0, 693147, 1098612, 1386294, 1609438, 1791759, 1945910, 2079442,
       2197225, 2302585, 2397895, 2484907, 2564949, 2639057, 2708050,
       2772589, 2833213, 2890372, 2944439, 2995732, 3044522, 3091042,
       3135494, 3178054, 3218876, 3258097, 3295837, 3332205, 3367296,
       3401197, 3433987, 3465736, 3496508, 3526361, 3555348, 3583519,
       3610918, 3637586, 3663562, 3688879, 3713572, 3737670, 3761200,
       3784190, 3806662, 3828641, 3850148, 3871201, 3891820, 3912023,
       3931826, 3951244, 3970292, 3988984, 4007333, 4025352, 4043051,
       4060443, 4077537, 4094345, 4110874, 4127134, 4143135, 4158883,
       4174387, 4189655, 4204693, 4219508, 4234107, 4248495, 4262680,
       4276666, 4290459, 4304065, 4317488, 4330733, 4343805, 4356709,
       4369448, 4382027, 4394449, 4406719, 4418841, 4430817, 4442651,
       4454347, 4465908, 4477337, 4488636, 4499810, 4510860, 4521789,
       4532599, 4543295, 4553877, 4564348, 4574711, 4584967, 4595120,
       4605170, 4615121, 4624973, 4634729, 4644391, 4653960, 4663439,
       4672829, 4682131, 4691348, 4700480 >>

RECURSIVE LnFactorial(_)
LnFactorial(n) == IF n <= 1 THEN 0 ELSE LnTable[n] + LnFactorial(n - 1)

Finite(x) == [kind |-> "finite", micro |-> x]

MinusInfinity == [kind |-> "neginf", micro |-> 0]

NotANumber == [kind |-> "nan", micro |-> 0]

\* ln of boost::math::pdf(binomial(coverage, num / den), observedCallCount)
LnBinomialPdf(coverage, observedCallCount, num, den) ==
    IF num = 0
    THEN IF observedCallCount = 0 THEN Finite(0) ELSE MinusInfinity
    ELSE IF num = den
    THEN IF observedCallCount = coverage THEN Finite(0) ELSE MinusInfinity
    ELSE Finite(LnFactorial(coverage) - LnFactorial(observedCallCount)
                - LnFactorial(coverage - observedCallCount)
                + observedCallCount * (LnTable[num] - LnTable[den])
                + (coverage - observedCallCount) * (LnTable[den - num] - LnTable[den]))

\* std::log(Likelihood(coverage, observedCallCount, num / den))
LogLikelihood(coverage, observedCallCount, num, den) ==
    IF observedCallCount = 0 THEN MinusInfinity
    ELSE LnBinomialPdf(coverage, observedCallCount, num, den)

\* std::max(a, b), that is (a < b) ? b : a
LogMax(a, b) ==
    CASE a.kind = "nan" \/ b.kind = "nan" -> a
      [] a.kind = "neginf" -> IF b.kind = "finite" THEN b ELSE a
      [] b.kind = "neginf" -> a
      [] OTHER -> IF a.micro < b.micro THEN b ELSE a

LogMinus(a, b) ==
    CASE a.kind = "nan" \/ b.kind = "nan" -> NotANumber
      [] a.kind = "neginf" /\ b.kind = "neginf" -> NotANumber
      [] a.kind = "neginf" -> MinusInfinity
      [] b.kind = "neginf" -> [kind |-> "inf", micro |-> 0]
      [] OTHER -> Finite(a.micro - b.micro)

strand_bias(fwdAlt, revAlt, fwdOther, revOther) ==
    LET num  == fwdAlt + revAlt
        den  == fwdOther + revOther + fwdAlt + revAlt
        fwd  == LogLikelihood(fwdAlt + fwdOther, fwdAlt, num, den)
        rev  == LogLikelihood(revAlt + revOther, revAlt, num, den)
        both == LogLikelihood(fwdAlt + fwdOther + revAlt + revOther, fwdAlt + revAlt, num, den)
    IN  LogMinus(LogMax(fwd, rev), both)

-----------------------------------------------------------------------------
(* Continuous variant caller: position_snp_call_continuous                 *)

\* reads of one base in the generated pileups
MaxBaseCount == 2

\* samples of a locus
MaxSamples == 2

\* opt.min_het_vf, as a fraction
MinHetVfs == {[num |-> 1, den |-> 20], [num |-> 1, den |-> 5], [num |-> 4, den |-> 5]}

CallerOptions == [min_het_vf : MinHetVfs, min_qscore : {17}]

\* depth 100, reference count 90, one alternative count 10
ScenarioCounts == [b \in Bases |-> CASE b = 0 -> 90 [] b = 1 -> 10 [] OTHER -> 0]

BaseCounts == [Bases -> 0 .. MaxBaseCount] \cup {ScenarioCounts}

\* good_pi.calls tallied by strand and base: every call on the forward strand,
\* or the calls of each base dealt to the two strands in turn
Pileup(counts, strands) ==
    IF strands = "forward"
    THEN [fwd |-> counts, rev |-> [b \in Bases |-> 0]]
    ELSE [fwd |-> [b \in Bases |-> (counts[b] + 1) \div 2],
          rev |-> [b \in Bases |-> counts[b] \div 2]]

Pileups == {Pileup(counts, strands) : counts \in BaseCounts, strands \in {"forward", "dealt"}}

alleleObservationCounts(pi, base_id) == pi.fwd[base_id] + pi.rev[base_id]

\* the locus as constructed for a position, before the caller scores it
SiteLocus(ref, spanning_deletions, isForcedOutput, sampleCount) ==
    [ref |-> ref, spanning_deletions |-> spanning_deletions,
     isForcedOutput |-> isForcedOutput, sampleCount |-> sampleCount,
     altAlleles |-> <<>>, _is_snp |-> FALSE,
     gq |-> [s \in 1 .. sampleCount |-> 0], anyVariantAlleleQuality |-> 0]

SiteLoci ==
    {SiteLocus(ref, del, forced, n) :
        ref \in {0, 3}, del \in {0, 2}, forced \in BOOLEAN, n \in 1 .. MaxSamples}

TotalDepth(pi, locus) ==
    locus.spanning_deletions + SetSum(Bases, [b \in Bases |-> alleleObservationCounts(pi, b)])

GermlineContinuousSiteAlleleInfo(totalDepth, alleleDepth, base) ==
    [totalDepth |-> totalDepth, alleleDepth |-> alleleDepth, base |-> base,
     gqx |-> 0, strand_bias |-> Finite(0)]

\* safeFrac(count, totalDepth) > opt.min_het_vf, at least rather than above
ExceedsMinHetVf_atLeast(count, totalDepth, min_het_vf) ==
    totalDepth > 0 /\ count * min_het_vf.den >= min_het_vf.num * totalDepth

\* safeFrac(count, totalDepth) > opt.min_het_vf
ExceedsMinHetVf(count, totalDepth, min_het_vf) ==
    totalDepth > 0 /\ count * min_het_vf.den > min_het_vf.num * totalDepth

\* the tally of good_pi.calls for base_id and the strand bias computed from it
AlleleStrandBias(pi, base_id) ==
    LET others(counts) == SetSum(Bases \ {base_id}, counts)
    IN  strand_bias(pi.fwd[base_id], pi.rev[base_id], others(pi.fwd), others(pi.rev))

\* the body of the sample loop of generateAlleleInfo from sampleIndex on; st holds
\* the locus, the allele under construction and isOutputAllele
RECURSIVE SampleLoop(_, _, _, _, _, _)
SampleLoop(opt, pi, st, base_id, isForcedOutput, sampleIndex) ==
    IF sampleIndex > st.locus.sampleCount THEN st.locus
    ELSE
    LET locus     == st.locus
        count     == alleleObservationCounts(pi, base_id)
        totalDepth == st.allele.totalDepth
        aboveVf   == ExceedsMinHetVf(count, totalDepth, opt.min_het_vf)
        scored    == aboveVf \/ isForcedOutput
        score     == poisson_qscore(count, totalDepth, opt.min_qscore, MaxQScore)
        isAlt     == locus.ref # base_id
        allele1   == IF ~scored THEN st.allele
                     ELSE [st.allele EXCEPT
                              !.gqx = score,
                              !.strand_bias = IF isAlt THEN AlleleStrandBias(pi, base_id) ELSE @]
        isOutput1 == st.isOutputAllele \/ scored
        locus1    == [locus EXCEPT
                         !.gq[sampleIndex] = IF scored THEN score ELSE @,
                         !._is_snp = IF scored /\ isAlt THEN @ \/ aboveVf ELSE @,
                         !.altAlleles = IF isOutput1 THEN Append(@, allele1) ELSE @]
    IN  SampleLoop(opt, pi, [locus |-> locus1, allele |-> allele1, isOutputAllele |-> isOutput1],
                   base_id, isForcedOutput, sampleIndex + 1)

generateAlleleInfo(opt, pi, locus, base_id, isForcedOutput) ==
    SampleLoop(opt, pi,
               [locus |-> locus,
                allele |-> GermlineContinuousSiteAlleleInfo(
                               TotalDepth(pi, locus), alleleObservationCounts(pi, base_id), base_id),
                isOutputAllele |-> FALSE],
               base_id, isForcedOutput, 1)

\* the loop over the bases from base_id on
RECURSIVE BaseLoop(_, _, _, _)
BaseLoop(opt, pi, locus, base_id) ==
    IF base_id \notin Bases THEN locus
    ELSE BaseLoop(opt, pi, generateAlleleInfo(opt, pi, locus, base_id, locus.isForcedOutput),
                  base_id + 1)

RECURSIVE MaxGq(_, _)
MaxGq(gq, sampleIndex) ==
    IF sampleIndex > Len(gq) THEN 0 ELSE Max(gq[sampleIndex], MaxGq(gq, sampleIndex + 1))

position_snp_call_continuous(opt, pi, locusInfo) ==
    LET called == BaseLoop(opt, pi, locusInfo, 0)
        forced == IF called.altAlleles = <<>>
                  THEN generateAlleleInfo(opt, pi, called, called.ref, TRUE)
                  ELSE called
    IN  [forced EXCEPT !.anyVariantAlleleQuality = MaxGq(forced.gq, 1)]

SiteInit ==
    /\ good_pi \in Pileups
    /\ siteLocus \in SiteLoci
    /\ sitePc = "examined"

SiteIdle ==
    /\ good_pi = Pileup([b \in Bases |-> 0], "forward")
    /\ siteLocus = SiteLocus(0, 0, FALSE, 1)
    /\ sitePc = "examined"

PositionSnpCallContinuous ==
    /\ sitePc = "examined"
    /\ siteLocus' = position_snp_call_continuous(callerOpt, good_pi, siteLocus)
    /\ sitePc' = "called"
    /\ UNCHANGED <<callerOpt, good_pi, indelVars>>
    /\ UNCHANGED <<scanVars, compressVars, libVars>>

-----------------------------------------------------------------------------
(* Continuous variant caller: add_indel_call                               *)

\* add_indel_call on one locus, one call per candidate indel allele
MaxIndelCalls == 2

\* <<n_confident_indel_reads, total_confident_reads()>> of a sample report
IndelReadCounts ==
    {<<0, 0>>, <<0, 4>>, <<1, 5>>, <<1, 2>>, <<3, 4>>, <<4, 5>>, <<50, 100>>, <<97, 100>>}

IndelSampleReports ==
    {[n_confident_indel_reads |-> rc[1], total_confident_reads |-> rc[2],
      isForcedOutput |-> forced] : rc \in IndelReadCounts, forced \in BOOLEAN}

IndelLocus(sampleCount) ==
    [sampleCount |-> sampleCount, altAlleles |-> <<>>, is_het |-> FALSE,
     gq |-> [s \in 1 .. sampleCount |-> 0], anyVariantAlleleQuality |-> 0]

GermlineContinuousIndelAlleleInfo(totalDepth, alleleDepth) ==
    [totalDepth |-> totalDepth, alleleDepth |-> alleleDepth, gqx |-> 0]

\* variant_frequency() < (1 - opt.min_het_vf), variant_frequency() being
\* safeFrac(alleleDepth, totalDepth)
BelowHomVf(allele, min_het_vf) ==
    IF allele.totalDepth = 0 THEN 0 < min_het_vf.den - min_het_vf.num
    ELSE allele.alleleDepth * min_het_vf.den
            < (min_het_vf.den - min_het_vf.num) * allele.totalDepth

\* is_het without the test of the number of alleles
IsHet_soleAlleleOnly(altAlleles, opt) ==
    BelowHomVf(Head(altAlleles), opt.min_het_vf)

IsHet(altAlleles, opt) ==
    Len(altAlleles) > 1 \/ BelowHomVf(Head(altAlleles), opt.min_het_vf)

\* vf > opt.min_het_vf for vf = n / (double) total, 0 / 0 being NaN
IndelExceedsMinHetVf(report, min_het_vf) ==
    /\ report.total_confident_reads > 0
    /\ report.n_confident_indel_reads * min_het_vf.den
          > min_het_vf.num * report.total_confident_reads

add_indel_call(opt, report, locusInfo) ==
    LET reported == IndelExceedsMinHetVf(report, opt.min_het_vf) \/ report.isForcedOutput
        score    == poisson_qscore(report.n_confident_indel_reads, report.total_confident_reads,
                                   opt.min_qscore, MaxQScore)
        allele   == [GermlineContinuousIndelAlleleInfo(
                         report.total_confident_reads, report.n_confident_indel_reads)
                     EXCEPT !.gqx = IF locusInfo.sampleCount > 0 THEN score ELSE @]
        alleles  == IF reported THEN Append(locusInfo.altAlleles, allele)
                    ELSE locusInfo.altAlleles
        gq       == IF reported THEN [s \in 1 .. locusInfo.sampleCount |-> score]
                    ELSE locusInfo.gq
    IN  [locusInfo EXCEPT
            !.altAlleles = alleles,
            !.gq = gq,
            !.is_het = IF alleles # <<>> THEN IsHet(alleles, opt) ELSE @,
            !.anyVariantAlleleQuality = MaxGq(gq, 1)]

IndelInit ==
    /\ indelLocus \in {IndelLocus(n) : n \in 1 .. MaxSamples}
    /\ indelCallCount = 0

IndelIdle ==
    /\ indelLocus = IndelLocus(1)
    /\ indelCallCount = 0

AddIndelCall ==
    /\ indelCallCount < MaxIndelCalls
    /\ \E report \in IndelSampleReports :
          indelLocus' = add_indel_call(callerOpt, report, indelLocus)
    /\ indelCallCount' = indelCallCount + 1
    /\ UNCHANGED <<callerOpt, siteVars>>
    /\ UNCHANGED <<scanVars, compressVars, libVars>>

CallerIdle ==
    /\ callerOpt = [min_het_vf |-> [num |-> 1, den |-> 20], min_qscore |-> 17]
    /\ SiteIdle
    /\ IndelIdle

-----------------------------------------------------------------------------
(* Calls of the library functions of the caller                            *)

NoResult == [kind |-> "none", micro |-> 0]

CallIdle ==
    /\ callArgs = <<>>
    /\ callResult = NoResult
    /\ callPc = "idle"

\* reads of one kind (alt or other, forward or reverse) in the generated tallies
MaxTally == 2

\* alt on one strand only, and alt balanced over the strands
OneStrandTally == <<10, 0, 0, 10>>

BalancedTally == <<5, 5, 5, 5>>

\* <<fwdAlt, revAlt, fwdOther, revOther>>
StrandTallies ==
    {<<fa, ra, fo, ro>> : fa \in 0 .. MaxTally, ra \in 0 .. MaxTally,
                          fo \in 0 .. MaxTally, ro \in 0 .. MaxTally}
       \cup {OneStrandTally, BalancedTally}

StrandBiasInit ==
    /\ callArgs \in StrandTallies
    /\ callResult = NoResult
    /\ callPc = "entered"

StrandBias ==
    /\ callPc = "entered"
    /\ callResult' = strand_bias(callArgs[1], callArgs[2], callArgs[3], callArgs[4])
    /\ callPc' = "returned"
    /\ UNCHANGED <<callArgs, modelVars>>
    /\ UNCHANGED <<scanVars, compressVars, callerVars, keeperVars>>

\* coverage of the generated calls of poisson_qscore
MaxCoverage == 10

\* <<callCount, coverage>>, the last one deep enough for the p-value to underflow
DeepCalls == {<<10, 100>>, <<90, 100>>, <<300, 300>>}

\* <<callCount, coverage, estimatedBaseCallQuality, maxQScore>>
QscoreCalls ==
    {<<cc[1], cc[2], 17, cap>> :
        cc \in {<<n, c>> : n \in 0 .. MaxCoverage, c \in 0 .. MaxCoverage} \cup DeepCalls,
        cap \in {10, 40}}

PoissonQscoreInit ==
    /\ callArgs \in {call \in QscoreCalls : call[1] <= call[2]}
    /\ callResult = NoResult
    /\ callPc = "entered"

PoissonQscore ==
    /\ callPc = "entered"
    /\ callResult' = poisson_qscore(callArgs[1], callArgs[2], callArgs[3], callArgs[4])
    /\ callPc' = "returned"
    /\ UNCHANGED <<callArgs, modelVars>>
    /\ UNCHANGED <<scanVars, compressVars, callerVars, keeperVars>>

-----------------------------------------------------------------------------
(* IndelErrorModel                                                         *)
(*                                                                         *)
(* An error rate is held as round(1000000 * ln(rate)), the scale on which  *)
(* the tables are built; exp is increasing, so rates compare as their logs. *)

\* AdaptiveIndelErrorModel::lowRepeatCount, the repeat count of the low anchor
lowRepeatCount == 2

\* IndelErrorRateSet: the rates added, keyed by <<repeatingPatternSize,
\* patternRepeatCount>>, and whether finalizeRates has locked them
EmptyRateSet == [rates |-> [k \in {} |-> 0], finalized |-> FALSE]

addRate(set, repeatingPatternSize, patternRepeatCount, insertionRate, deletionRate, noisyLocusRate) ==
    [set EXCEPT !.rates =
        [k \in DOMAIN @ \cup {<<repeatingPatternSize, patternRepeatCount>>} |->
            IF k = <<repeatingPatternSize, patternRepeatCount>>
            THEN [INSERT |-> insertionRate, DELETE |-> deletionRate, noisy |-> noisyLocusRate]
            ELSE @[k]]]

finalizeRates(set) == [set EXCEPT !.finalized = TRUE]

SetMax(S) == CHOOSE x \in S : \A y \in S : y <= x

\* the key that answers for <<repeatingPatternSize, patternRepeatCount>>: the
\* pattern size and then the repeat count are held to the extent of the table
RateKey(set, repeatingPatternSize, patternRepeatCount) ==
    LET size   == Min(repeatingPatternSize, SetMax({k[1] : k \in DOMAIN set.rates}))
        counts == {k[2] : k \in {j \in DOMAIN set.rates : j[1] = size}}
    IN  <<size, Min(patternRepeatCount, SetMax(counts))>>

HasRate(set, repeatingPatternSize, patternRepeatCount) ==
    /\ set.finalized
    /\ DOMAIN set.rates # {}
    /\ RateKey(set, repeatingPatternSize, patternRepeatCount) \in DOMAIN set.rates

getRate(set, repeatingPatternSize, patternRepeatCount, simpleIndelType) ==
    set.rates[RateKey(set, repeatingPatternSize, patternRepeatCount)][simpleIndelType]

\* ln(5e-5), ln(3e-4): the ends of the log-linear ramp
LogLinearParams == [logLowErrorRate |-> -9903488, logHighErrorRate |-> -8111728,
                    repeatCountSwitchPoint |-> 15]

\* the rate added for patternRepeatCount by getLogLinearIndelErrorModel
LogLinearRate(patternRepeatCount) ==
    LET switch == LogLinearParams.repeatCountSwitchPoint
        high   == Min(patternRepeatCount - 1, switch)
    IN  ((switch - high) * LogLinearParams.logLowErrorRate
            + high * LogLinearParams.logHighErrorRate) \div switch

RECURSIVE AddLogLinearRates(_, _)
AddLogLinearRates(rates, patternRepeatCount) ==
    IF patternRepeatCount > LogLinearParams.repeatCountSwitchPoint + 1 THEN rates
    ELSE AddLogLinearRates(
             addRate(rates, 1, patternRepeatCount, LogLinearRate(patternRepeatCount),
                     LogLinearRate(patternRepeatCount), 0),
             patternRepeatCount + 1)

getLogLinearIndelErrorModel == AddLogLinearRates(EmptyRateSet, 1)

\* linearFit with the two anchors exchanged in the slope
linearFit_reversed(x, x1, y1, x2, y2) ==
    ((y1 - y2) * x + (x2 * y1 - x1 * y2)) \div (x2 - x1)

linearFit(x, x1, y1, x2, y2) ==
    ((y2 - y1) * x + (x2 * y1 - x1 * y2)) \div (x2 - x1)

AdaptiveIndelErrorModel(repeatPatternSize, highRepeatCount, lowLogErrorRate, highLogErrorRate) ==
    [repeatPatternSize |-> repeatPatternSize, highRepeatCount |-> highRepeatCount,
     lowLogErrorRate |-> lowLogErrorRate, highLogErrorRate |-> highLogErrorRate]

\* AdaptiveIndelErrorModel::errorRate, for repeatCount > 1
errorRate(model, repeatCount) ==
    IF repeatCount >= model.highRepeatCount THEN model.highLogErrorRate
    ELSE linearFit(repeatCount, lowRepeatCount, model.lowLogErrorRate,
                   model.highRepeatCount, model.highLogErrorRate)

\* ln(8e-3), and per pattern size ln(4.9e-3), ln(1.0e-2) low and
\* ln(4.5e-2), ln(1.8e-2) high
SimplifiedAdaptiveParameters ==
    [nonStrRate |-> -4828314,
     models |-> <<AdaptiveIndelErrorModel(1, 16, -5318520, -3101093),
                  AdaptiveIndelErrorModel(2, 9, -4605170, -4017384)>>]

RECURSIVE AddAdaptiveRates(_, _, _)
AddAdaptiveRates(rates, model, patternRepeatCount) ==
    IF patternRepeatCount > model.highRepeatCount THEN rates
    ELSE AddAdaptiveRates(
             addRate(rates, model.repeatPatternSize, patternRepeatCount,
                     errorRate(model, patternRepeatCount), errorRate(model, patternRepeatCount), 0),
             model, patternRepeatCount + 1)

RECURSIVE AddAdaptiveModels(_, _)
AddAdaptiveModels(rates, ix) ==
    IF ix > Len(SimplifiedAdaptiveParameters.models) THEN rates
    ELSE LET model == SimplifiedAdaptiveParameters.models[ix]
             first == addRate(rates, model.repeatPatternSize, 1,
                              SimplifiedAdaptiveParameters.nonStrRate,
                              SimplifiedAdaptiveParameters.nonStrRate, 0)
         IN  AddAdaptiveModels(AddAdaptiveRates(first, model, lowRepeatCount), ix + 1)

getSimplifiedAdaptiveParameters == AddAdaptiveModels(EmptyRateSet, 1)

\* the model file as the constructor finds it: absent, not JSON, JSON without
\* "motifs", or JSON with a list of motifs
Motif(repeatPatternSize, repeatCount, indelRate) ==
    [repeatPatternSize |-> repeatPatternSize, repeatCount |-> repeatCount,
     indelRate |-> indelRate, noisyLocusRate |-> 0]

ModelFile(kind, motifs) == [kind |-> kind, motifs |-> motifs]

ModelFiles ==
    {ModelFile("missing", <<>>), ModelFile("malformed", <<>>), ModelFile("noMotifs", <<>>),
     ModelFile("motifs", <<>>),
     ModelFile("motifs", <<Motif(1, 1, -7000000)>>),
     ModelFile("motifs", <<Motif(1, 1, -7000000), Motif(1, 2, -6000000),
                           Motif(2, 1, -6500000), Motif(2, 2, -5000000)>>)}

ModelNames == {"logLinear", "adaptiveDefault", "custom"}

ModelFilenames == {"", "model.json"}

NoError == [kind |-> "none", names |-> ""]

\* the exception thrown out of the constructor
Failed(kind, names) ==
    [status |-> "failed", errorRates |-> EmptyRateSet, candidateErrorRates |-> EmptyRateSet,
     error |-> [kind |-> kind, names |-> names]]

Unconstructed ==
    [status |-> "none", errorRates |-> EmptyRateSet, candidateErrorRates |-> EmptyRateSet,
     error |-> NoError]

RECURSIVE AddMotifs(_, _)
AddMotifs(rates, motifs) ==
    IF motifs = <<>> THEN rates
    ELSE LET motifValue == Head(motifs)
         IN  AddMotifs(addRate(rates, motifValue.repeatPatternSize, motifValue.repeatCount,
                               motifValue.indelRate, motifValue.indelRate,
                               motifValue.noisyLocusRate),
                       Tail(motifs))

\* the rates after deserializeIndelModels, or its exception
deserializeIndelModels(errorRates, modelFilename, root) ==
    IF root.kind = "noMotifs"
    THEN [thrown |-> TRUE, kind |-> "no motifs in model file", names |-> modelFilename,
          errorRates |-> errorRates]
    ELSE [thrown |-> FALSE, kind |-> "none", names |-> "",
          errorRates |-> AddMotifs(errorRates, root.motifs)]

\* reader.parse(jsonString, root) of what the stream read from the file
ParsesAsJson(file) == file.kind \in {"noMotifs", "motifs"}

\* the constructor without the error for an unknown model name
IndelErrorModel_anyName(modelName, modelFilename, file) ==
    LET loaded ==
            IF modelFilename = ""
            THEN IF modelName = "logLinear"
                 THEN [thrown |-> FALSE, kind |-> "none", names |-> "",
                       errorRates |-> getLogLinearIndelErrorModel]
                 ELSE [thrown |-> FALSE, kind |-> "none", names |-> "",
                       errorRates |-> getSimplifiedAdaptiveParameters]
            ELSE IF ParsesAsJson(file)
                 THEN deserializeIndelModels(EmptyRateSet, modelFilename, file)
                 ELSE [thrown |-> TRUE, kind |-> "Failed to parse JSON", names |-> modelFilename,
                       errorRates |-> EmptyRateSet]
    IN  IF loaded.thrown THEN Failed(loaded.kind, loaded.names)
        ELSE [status |-> "constructed",
              errorRates |-> finalizeRates(loaded.errorRates),
              candidateErrorRates |-> finalizeRates(getLogLinearIndelErrorModel),
              error |-> NoError]

IndelErrorModel(modelName, modelFilename, file) ==
    LET loaded ==
            IF modelFilename = ""
            THEN IF modelName = "logLinear"
                 THEN [thrown |-> FALSE, kind |-> "none", names |-> "",
                       errorRates |-> getLogLinearIndelErrorModel]
                 ELSE IF modelName = "adaptiveDefault"
                 THEN [thrown |-> FALSE, kind |-> "none", names |-> "",
                       errorRates |-> getSimplifiedAdaptiveParameters]
                 ELSE [thrown |-> TRUE, kind |-> "unrecognized indel error model name",
                       names |-> modelName, errorRates |-> EmptyRateSet]
            ELSE IF ParsesAsJson(file)
                 THEN deserializeIndelModels(EmptyRateSet, modelFilename, file)
                 ELSE [thrown |-> TRUE, kind |-> "Failed to parse JSON", names |-> modelFilename,
                       errorRates |-> EmptyRateSet]
    IN  IF loaded.thrown THEN Failed(loaded.kind, loaded.names)
        ELSE [status |-> "constructed",
              errorRates |-> finalizeRates(loaded.errorRates),
              candidateErrorRates |-> finalizeRates(getLogLinearIndelErrorModel),
              error |-> NoError]

\* repeat counts of the generated report infos, besides the long repeat
MaxRepeatCount == 3

RepeatCounts == (0 .. MaxRepeatCount) \cup {17}

AlleleReportInfos ==
    [repeatUnitLength : {0, 1, 2, 3}, refRepeatCount : RepeatCounts,
     indelRepeatCount : RepeatCounts]

\* getRateType(indelKey)
IndelErrorRateTypes == {"INSERT", "DELETE", "OTHER"}

\* reverseIndelType without the exchange
reverseIndelType_same(indelType) == indelType

reverseIndelType(indelType) == IF indelType = "DELETE" THEN "INSERT" ELSE "DELETE"

\* the complex branch reading the deletion rate at repeat count 2
complexIndelRates_secondCount(errorRates) ==
    LET baselineInsertionErrorRate == getRate(errorRates, 1, 1, "INSERT")
        baselineDeletionErrorRate  == getRate(errorRates, 1, 2, "DELETE")
        prob == Max(baselineInsertionErrorRate, baselineDeletionErrorRate)
    IN  [refToIndelErrorProb |-> prob, indelToRefErrorProb |-> prob,
         reads |-> <<<<1, 1, "INSERT">>, <<1, 2, "DELETE">>>>]

\* the branch of getIndelErrorRate for an indel that is not simple
complexIndelRates(errorRates) ==
    LET baselineInsertionErrorRate == getRate(errorRates, 1, 1, "INSERT")
        baselineDeletionErrorRate  == getRate(errorRates, 1, 1, "DELETE")
        prob == Max(baselineInsertionErrorRate, baselineDeletionErrorRate)
    IN  [refToIndelErrorProb |-> prob, indelToRefErrorProb |-> prob,
         reads |-> <<<<1, 1, "INSERT">>, <<1, 1, "DELETE">>>>]

getIndelErrorRate(model, indelType, indelReportInfo, isCandidateRates) ==
    LET errorRates == IF isCandidateRates THEN model.candidateErrorRates ELSE model.errorRates
        isSimpleIndel == indelType = "INSERT" \/ indelType = "DELETE"
    IN  IF ~isSimpleIndel THEN complexIndelRates(errorRates)
        ELSE LET repeatingPatternSize    == Max(indelReportInfo.repeatUnitLength, 1)
                 refPatternRepeatCount   == Max(indelReportInfo.refRepeatCount, 1)
                 indelPatternRepeatCount == Max(indelReportInfo.indelRepeatCount, 1)
             IN  [refToIndelErrorProb |->
                      getRate(errorRates, repeatingPatternSize, refPatternRepeatCount, indelType),
                  indelToRefErrorProb |->
                      getRate(errorRates, repeatingPatternSize, indelPatternRepeatCount,
                              reverseIndelType(indelType)),
                  reads |-> <<<<repeatingPatternSize, refPatternRepeatCount, indelType>>,
                              <<repeatingPatternSize, indelPatternRepeatCount,
                                reverseIndelType(indelType)>>>>]

NoQuery ==
    [status |-> "none", indelType |-> "OTHER",
     indelReportInfo |-> [repeatUnitLength |-> 0, refRepeatCount |-> 0, indelRepeatCount |-> 0],
     isCandidateRates |-> FALSE,
     refToIndelErrorProb |-> 0, indelToRefErrorProb |-> 0, reads |-> <<>>]

ModelInit ==
    /\ modelArgs \in {args \in [modelName : ModelNames, modelFilename : ModelFilenames,
                                file : ModelFiles] :
                         args.modelFilename = "" => args.file.kind = "missing"}
    /\ indelModel = Unconstructed
    /\ rateQuery = NoQuery

ModelIdle ==
    /\ modelArgs = [modelName |-> "logLinear", modelFilename |-> "",
                    file |-> ModelFile("missing", <<>>)]
    /\ indelModel = Unconstructed
    /\ rateQuery = NoQuery

ConstructIndelErrorModel ==
    /\ indelModel.status = "none"
    /\ indelModel' = IndelErrorModel(modelArgs.modelName, modelArgs.modelFilename, modelArgs.file)
    /\ UNCHANGED <<modelArgs, rateQuery, callVars>>
    /\ UNCHANGED <<scanVars, compressVars, callerVars, keeperVars>>

\* one query of the constructed model; a table without rates has none to return
GetIndelErrorRate ==
    /\ indelModel.status = "constructed"
    /\ rateQuery.status = "none"
    /\ \E indelType \in IndelErrorRateTypes, info \in AlleleReportInfos, isCandidateRates \in BOOLEAN :
          LET errorRates == IF isCandidateRates THEN indelModel.candidateErrorRates
                            ELSE indelModel.errorRates
              query == [status |-> "returned", indelType |-> indelType,
                        indelReportInfo |-> info, isCandidateRates |-> isCandidateRates]
          IN  /\ HasRate(errorRates, 1, 1)
              /\ rateQuery' = query @@ getIndelErrorRate(indelModel, indelType, info, isCandidateRates)
    /\ UNCHANGED <<modelArgs, indelModel, callVars>>
    /\ UNCHANGED <<scanVars, compressVars, callerVars, keeperVars>>

-----------------------------------------------------------------------------
(* AdaptiveIndelErrorModel::errorRate, called on its own                   *)

\* the switch points (high anchors) of the generated adaptive models
MaxHighRepeatCount == 6

HighRepeatCounts == (lowRepeatCount .. MaxHighRepeatCount) \cup {9, 16}

\* the log error rates of the anchors: those of the built-in tables
AnchorLogRates == {-9903488, -8111728, -5318520, -4605170, -4017384, -3101093}

AdaptiveModels ==
    {AdaptiveIndelErrorModel(1, high, lowRate, highRate) :
        high \in HighRepeatCounts, lowRate \in AnchorLogRates, highRate \in AnchorLogRates}

\* <<model, repeatCount>>, the repeat count above 1 as errorRate asserts
ErrorRateCalls == {<<model, repeatCount>> : model \in AdaptiveModels, repeatCount \in 2 .. 18}

ErrorRateInit ==
    /\ callArgs \in ErrorRateCalls
    /\ callResult = NoResult
    /\ callPc = "entered"

ErrorRate ==
    /\ callPc = "entered"
    /\ callResult' = errorRate(callArgs[1], callArgs[2])
    /\ callPc' = "returned"
    /\ UNCHANGED <<callArgs, modelVars>>
    /\ UNCHANGED <<scanVars, compressVars, callerVars, keeperVars>>

-----------------------------------------------------------------------------
(* strelka_filter_keeper and SOMATIC_VARIANT_VCF_FILTERS                   *)

\* enum index_t
HighDepth == 0

LowEVS == 1

BCNoise == 2

SpanDel == 3

QSS_ref == 4

Repeat == 5

iHpol == 6

IndelBCNoise == 7

QSI_ref == 8

Nonref == 9

SIZE == 10

FilterIds == 0 .. (SIZE - 1)

get_label(idx) ==
    CASE idx = HighDepth -> "HighDepth"
      [] idx = BCNoise -> "BCNoise"
      [] idx = SpanDel -> "SpanDel"
      [] idx = QSS_ref -> "QSS_ref"
      [] idx = Repeat -> "Repeat"
      [] idx = iHpol -> "iHpol"
      [] idx = IndelBCNoise -> "BCNoise"
      [] idx = QSI_ref -> "QSI_ref"
      [] idx = LowEVS -> "LowEVS"
      [] idx = Nonref -> "Nonref"
      [] OTHER -> "assert: Unknown vcf filter id"

NoFault == "none"

SettingTwice == "assert: Setting filter twice"

\* std::bitset<SIZE> as the set of the positions that hold 1
clear(bits) == {}

\* set(i): the assertion fails before the bit is written
set(bits, i) ==
    IF i \in bits
    THEN [filters |-> bits, fault |-> SettingTwice]
    ELSE [filters |-> bits \cup {i}, fault |-> NoFault]

\* the loop of write(): what it appends to the stream, piece by piece
RECURSIVE writeLoop(_, _, _, _)
writeLoop(bits, i, is_sep, out) ==
    IF i >= SIZE THEN out
    ELSE IF i \notin bits THEN writeLoop(bits, i + 1, is_sep, out)
    ELSE writeLoop(bits, i + 1, TRUE,
                   out \o (IF is_sep THEN <<";">> ELSE <<>>) \o <<get_label(i)>>)

write_alwaysSeparator(bits) ==
    IF bits = {} THEN <<"PASS">> ELSE writeLoop(bits, 0, TRUE, <<>>)

write(bits) ==
    IF bits = {} THEN <<"PASS">> ELSE writeLoop(bits, 0, FALSE, <<>>)

NoFilterOp == [kind |-> "construct", i |-> SIZE, wasSet |-> FALSE]

\* the lowest filter a clear() removes, SIZE when it removes none
LowestOf(bits) ==
    IF bits = {} THEN SIZE ELSE CHOOSE i \in bits : \A j \in bits : i <= j

\* the constructor calls clear()
KeeperInit ==
    /\ filters = clear({})
    /\ filterFault = NoFault
    /\ os = <<>>
    /\ filterOp = NoFilterOp
    /\ cleared = SIZE

KeeperIdle == KeeperInit

LibIdle == CallIdle /\ ModelIdle /\ KeeperIdle

FilterSet ==
    /\ filterFault = NoFault
    /\ \E i \in FilterIds :
          LET after == set(filters, i)
          IN  /\ filters' = after.filters
              /\ filterFault' = after.fault
              /\ filterOp' = [kind |-> "set", i |-> i, wasSet |-> i \in filters]
    /\ os' = <<>>
    /\ UNCHANGED cleared
    /\ UNCHANGED <<scanVars, compressVars, callerVars, callVars, modelVars>>

FilterClear ==
    /\ filterFault = NoFault
    /\ filters' = clear(filters)
    /\ cleared' = LowestOf(filters)
    /\ filterOp' = [kind |-> "clear", i |-> SIZE, wasSet |-> FALSE]
    /\ os' = <<>>
    /\ UNCHANGED filterFault
    /\ UNCHANGED <<scanVars, compressVars, callerVars, callVars, modelVars>>

\* write(os) on a stream that is empty before the call
FilterWrite ==
    /\ filterFault = NoFault
    /\ os' = write(filters)
    /\ filterOp' = [kind |-> "write", i |-> SIZE, wasSet |-> FALSE]
    /\ UNCHANGED <<filters, filterFault, cleared>>
    /\ UNCHANGED <<scanVars, compressVars, callerVars, callVars, modelVars>>

-----------------------------------------------------------------------------
(* Specifications *)

Init == ScanInit /\ CompressIdle /\ CallerIdle /\ LibIdle

Next ==
    \/ AddSite
    \/ ExcludedRegionSkip
    \/ DepthSkip
    \/ EmptySkip
    \/ NoiseSkip
    \/ MergePartitions

\* the scan of the partitions and the merges of their aggregators
Spec == Init /\ [][Next]_vars

NextSteps ==
    \/ StepAddSite
    \/ StepExcludedRegionSkip
    \/ StepDepthSkip
    \/ StepEmptySkip
    \/ StepNoiseSkip
    \/ StepMerge

\* the scan and the merges of two aggregators, step by step
SpecSteps == Init /\ [][NextSteps]_vars

InitCompress == ScanInit /\ CompressInit /\ CallerIdle /\ LibIdle

NextCompress ==
    \/ StoreObservation
    \/ CompressAgain

NextExport ==
    \/ AddSiteForExport
    \/ MergeForExport
    \/ ExportContext

\* the scan followed by the export of the contexts
SpecExport == Init /\ [][NextExport]_vars

\* the canonicalization of one site observation
SpecCompress == InitCompress /\ [][NextCompress]_vars

InitSnp ==
    /\ ScanInit
    /\ CompressIdle
    /\ callerOpt \in CallerOptions
    /\ SiteInit
    /\ IndelIdle
    /\ LibIdle

NextSnp == PositionSnpCallContinuous

\* the scoring of one site by the continuous caller
SpecSnp == InitSnp /\ [][NextSnp]_vars

InitIndel ==
    /\ ScanInit
    /\ CompressIdle
    /\ callerOpt \in CallerOptions
    /\ SiteIdle
    /\ IndelInit
    /\ LibIdle

NextIndel == AddIndelCall

\* the scoring of the candidate alleles of one indel locus
SpecIndel == InitIndel /\ [][NextIndel]_vars

InitStrandBias ==
    /\ ScanInit
    /\ CompressIdle
    /\ CallerIdle
    /\ StrandBiasInit
    /\ ModelIdle
    /\ KeeperIdle

NextStrandBias == StrandBias

\* one call of strand_bias
SpecStrandBias == InitStrandBias /\ [][NextStrandBias]_vars

InitQscore ==
    /\ ScanInit
    /\ CompressIdle
    /\ CallerIdle
    /\ PoissonQscoreInit
    /\ ModelIdle
    /\ KeeperIdle

NextQscore == PoissonQscore

\* one call of poisson_qscore
SpecQscore == InitQscore /\ [][NextQscore]_vars

InitModel ==
    /\ ScanInit
    /\ CompressIdle
    /\ CallerIdle
    /\ CallIdle
    /\ ModelInit
    /\ KeeperIdle

NextModel ==
    \/ ConstructIndelErrorModel
    \/ GetIndelErrorRate

\* the construction of the indel error model and the rate queries on it
SpecModel == InitModel /\ [][NextModel]_vars

InitErrorRate ==
    /\ ScanInit
    /\ CompressIdle
    /\ CallerIdle
    /\ ErrorRateInit
    /\ ModelIdle
    /\ KeeperIdle

NextErrorRate == ErrorRate

\* one call of AdaptiveIndelErrorModel::errorRate
SpecErrorRate == InitErrorRate /\ [][NextErrorRate]_vars

InitKeeper ==
    /\ ScanInit
    /\ CompressIdle
    /\ CallerIdle
    /\ CallIdle
    /\ ModelIdle
    /\ KeeperInit

NextKeeper ==
    \/ FilterSet
    \/ FilterClear
    \/ FilterWrite

SpecKeeper == InitKeeper /\ [][NextKeeper]_vars

-----------------------------------------------------------------------------
(* Counts read out of an aggregator, absent keys being zero *)

SkipReasons == {"excludedRegion", "depth", "empty", "noise"}

PatternCount(a, c, pat) == IF c \in DOMAIN a THEN MapGet(a[c].counts.data, pat) ELSE 0

RefQualCount(a, c, q) ==
    IF c \in DOMAIN a THEN MapGet(a[c].counts.refAlleleBasecallErrorPhredProbs, q) ELSE 0

SkipCount(a, c, r) ==
    IF c \notin DOMAIN a THEN 0
    ELSE IF r = "excludedRegion" THEN a[c].excludedRegionSkipped
    ELSE IF r = "depth" THEN a[c].depthSkipped
    ELSE IF r = "empty" THEN a[c].emptySkipped
    ELSE a[c].noiseSkipped

PatternsOf(a) == UNION {DOMAIN a[c].counts.data : c \in DOMAIN a}

\* x and y agree per context on pattern counts, reference-quality totals and skips
SameCounts(x, y) ==
    \A c \in Contexts :
        /\ \A pat \in PatternsOf(x) \cup PatternsOf(y) :
               PatternCount(x, c, pat) = PatternCount(y, c, pat)
        /\ \A q \in Quals : RefQualCount(x, c, q) = RefQualCount(y, c, q)
        /\ \A r \in SkipReasons : SkipCount(x, c, r) = SkipCount(y, c, r)

\* every count of z is the count of x plus k times the count of y
SumCounts(z, x, y, k) ==
    \A c \in Contexts :
        /\ \A pat \in PatternsOf(x) \cup PatternsOf(y) \cup PatternsOf(z) :
               PatternCount(z, c, pat) = PatternCount(x, c, pat) + k * PatternCount(y, c, pat)
        /\ \A q \in Quals : RefQualCount(z, c, q) = RefQualCount(x, c, q) + k * RefQualCount(y, c, q)
        /\ \A r \in SkipReasons : SkipCount(z, c, r) = SkipCount(x, c, r) + k * SkipCount(y, c, r)

-----------------------------------------------------------------------------
(* Claims on the scan *)

\* C1: merge is associative and commutative: for the aggregators A, B, C built by
\* any sequence of site observations, skips and merges, merge(merge(A,B),C) and
\* merge(A,merge(B,C)) agree, and merge(A,B) and merge(B,A) agree, per context on
\* pattern counts, reference-quality totals and the four skip counters.
C1_MergeAssociativeCommutative ==
    LET A == agg[1]
        B == agg[2]
        C == agg[3]
    IN /\ SameCounts(BasecallErrorCounts_merge(BasecallErrorCounts_merge(A, B), C),
                     BasecallErrorCounts_merge(A, BasecallErrorCounts_merge(B, C)))
       /\ SameCounts(BasecallErrorCounts_merge(A, B), BasecallErrorCounts_merge(B, A))

\* three non-empty aggregators sharing a context, the first and second differing
\* in it, with a skip recorded
C1_Witness ==
    /\ \E c \in Contexts :
          /\ \A p \in Partitions : c \in DOMAIN agg[p]
          /\ agg[1][c] # agg[2][c]
          /\ SkipTotal(agg[1][c]) + SkipTotal(agg[2][c]) > 0

\* C3: merge adds counts pointwise, absent keys being zero: after A.merge(B) every
\* pattern count, reference-quality total and skip counter of A is its previous
\* value plus that of B; merging an empty aggregator changes nothing, and merging
\* a partition into a copy of itself doubles every count.
C3_MergePointwise ==
    [][lastOp' = "merge" => \A p \in Workers, q \in Workers :
          MergeUpdate(p, q) =>
             /\ SumCounts(agg'[p], agg[p], agg[q], 1)
             /\ \A r \in Partitions \ {p} : agg'[r] = agg[r]
             /\ (agg[q] = EmptyMap => agg'[p] = agg[p])
             /\ (SameCounts(agg[p], agg[q]) => SumCounts(agg'[p], EmptyMap, agg[q], 2))]_vars

\* a partition merged twice: the target holds twice a non-zero pattern count, a
\* reference-quality total and a context that the target took over whole
C3_Witness ==
    /\ lastOp = "merge"
    /\ \E p \in Workers, q \in Workers :
          /\ p # q
          /\ SumCounts(agg[p], EmptyMap, agg[q], 2)
          /\ \E c \in DOMAIN agg[q] : PatternTotal(agg[q], c) > 0

\* C4: each addSiteObservation(context, obs) raises the count of exactly one
\* pattern of that context by exactly 1 and changes no other pattern count; the
\* pattern counts of a context sum to the number of sites committed to it, summed
\* over the merged partitions.
C4_OnePatternPerSite ==
    /\ [](\A p \in Partitions, c \in Contexts : PatternTotal(agg[p], c) = committed[p][c])
    /\ [][lastOp' = "addSiteObservation" =>
            \E p \in Partitions, c \in Contexts :
               /\ committed' = [committed EXCEPT ![p][c] = @ + 1]
               /\ \E pat \in DOMAIN agg'[p][c].counts.data :
                     /\ PatternCount(agg'[p], c, pat) = PatternCount(agg[p], c, pat) + 1
                     /\ \A other \in (PatternsOf(agg[p]) \cup PatternsOf(agg'[p])) \ {pat} :
                           PatternCount(agg'[p], c, other) = PatternCount(agg[p], c, other)
               /\ \A d \in Contexts \ {c} :
                     \A pat \in PatternsOf(agg[p]) \cup PatternsOf(agg'[p]) :
                        PatternCount(agg'[p], d, pat) = PatternCount(agg[p], d, pat)
               /\ \A r \in Partitions \ {p} : agg'[r] = agg[r]]_vars

\* a site added to a context that already holds a merged site and another pattern
C4_Witness ==
    /\ lastOp = "addSiteObservation"
    /\ \E p \in Partitions, c \in Contexts :
          /\ c \in DOMAIN agg[p]
          /\ Cardinality(DOMAIN agg[p][c].counts.data) >= 2
          /\ committed[p][c] = 3

-----------------------------------------------------------------------------
(* Claims on the canonicalization *)

StrandAltEmpty(obs) == obs.alt[0] = EmptyMap /\ obs.alt[1] = EmptyMap

\* C2: canonicalization is idempotent and strand-symmetric: compressCounts applied
\* to the stored pattern returns it unchanged, the observation and its
\* strand-swapped twin are stored as the same pattern, and the stored pattern has
\* strand0 >= strand1 under the strand ordering.
C2_CanonicalIdempotentSymmetric ==
    /\ cpc \in {"stored", "again"} =>
          /\ StoredPattern(obsData) = StoredPattern(swappedData)
          /\ ~StrandLess(StoredPattern(obsData).strand0, StoredPattern(obsData).strand1)
    /\ cpc = "again" => recompressed = StoredPattern(obsData)

\* quantized strands whose order the quantization decides, compressed twice
C2_Witness ==
    /\ cpc = "again"
    /\ siteObs.ref[0] # siteObs.ref[1]
    /\ MapSum(siteObs.ref[0]) < MapSum(siteObs.ref[1])
    /\ compressInt(MapSum(siteObs.ref[0]), bitCount) = compressInt(MapSum(siteObs.ref[1]), bitCount)
    /\ siteObs.alt[0] # EmptyMap
    /\ StoredPattern(obsData).strand0.altAlleleCount = siteObs.alt[0]

\* C5: zero-alt collapse: when neither strand of the site observation has an alt
\* entry, the stored pattern has strand1 reference count 0, empty alt maps, and
\* strand0 reference count the quantization of the reference count summed over
\* both strands and all quality levels; when a strand has an alt entry the
\* quantized reference counts of the two strands are kept apart.
C5_ZeroAltCollapse ==
    cpc \in {"stored", "again"} =>
        LET pat == StoredPattern(obsData)
            r0 == MapSum(siteObs.ref[0])
            r1 == MapSum(siteObs.ref[1])
        IN IF StrandAltEmpty(siteObs)
           THEN /\ pat.strand1.refAlleleCount = 0
                /\ pat.strand0.altAlleleCount = EmptyMap
                /\ pat.strand1.altAlleleCount = EmptyMap
                /\ pat.strand0.refAlleleCount = compressInt(r0 + r1, bitCount)
           ELSE \/ /\ pat.strand0.refAlleleCount = compressInt(r0, bitCount)
                   /\ pat.strand1.refAlleleCount = compressInt(r1, bitCount)
                \/ /\ pat.strand0.refAlleleCount = compressInt(r1, bitCount)
                   /\ pat.strand1.refAlleleCount = compressInt(r0, bitCount)

\* a reference-only site whose summed count quantizes differently from its parts
C5_Witness ==
    /\ cpc = "stored"
    /\ StrandAltEmpty(siteObs)
    /\ MapSum(siteObs.ref[0]) = 9
    /\ MapSum(siteObs.ref[1]) = 8
    /\ StoredPattern(obsData).strand0.refAlleleCount = 16

-----------------------------------------------------------------------------
(* Claims on the export *)

ExportedData == agg[exportFrom[1]][exportFrom[2]].counts

\* the levels observed in the exported context, in reference or alt observations
ObservedLevels(cd) == DOMAIN cd.refAlleleBasecallErrorPhredProbs \cup AltLevels(cd)

\* C6: getExportData produces the ascending list of all distinct quality levels
\* observed in the context (reference or alt), a reference-count vector of that
\* length with the total reference count per level, and per stored pattern two
\* alt-count vectors of that length with each alt count at the index of its level
\* and 0 elsewhere; every level of a stored alt map has an index in the list.
C6_ExportAligned ==
    exportStatus # "none" =>
        LET cd == ExportedData
            levels == exportData.altAlleleBasecallErrorPhredProbLevels
            want == SortedSeq(ObservedLevels(cd))
            aligned(si, se) ==
                /\ Len(se.altAlleleCount) = Len(want)
                /\ \A i \in 1..Len(want) :
                      se.altAlleleCount[i] = MapGet(si.altAlleleCount, want[i])
        IN /\ exportStatus = "ok"
           /\ levels = want
           /\ \A q \in AltLevels(cd) : \E i \in 1..Len(levels) : levels[i] = q
           /\ Len(exportData.refCount) = Len(levels)
           /\ \A i \in 1..Len(levels) :
                 exportData.refCount[i] = MapGet(cd.refAlleleBasecallErrorPhredProbs, levels[i])
           /\ \A pat \in DOMAIN cd.data :
                 \E e \in DOMAIN exportData.observations :
                    /\ aligned(pat.strand0, e.strand0)
                    /\ aligned(pat.strand1, e.strand1)

\* C7: the collision assertion of the export never fails: distinct stored patterns
\* of a context give distinct exported patterns, and the exported instance counts
\* sum to the stored pattern occurrence counts.
C7_ExportNoCollision ==
    exportStatus # "none" =>
        /\ exportStatus # "assert"
        /\ Cardinality(DOMAIN exportData.observations) = Cardinality(DOMAIN ExportedData.data)
        /\ MapSum(exportData.observations) = MapSum(ExportedData.data)

-----------------------------------------------------------------------------
(* The scored site locus, read back *)

SiteCount(b) == alleleObservationCounts(good_pi, b)

SiteDepth == TotalDepth(good_pi, siteLocus)

\* base b has a record in the allele list
Reported(b) ==
    \E i \in 1 .. Len(siteLocus.altAlleles) : siteLocus.altAlleles[i].base = b

\* count / depth > min_het_vf, the fraction of an empty pileup being 0
PassesVf(b) ==
    /\ SiteDepth > 0
    /\ SiteCount(b) * callerOpt.min_het_vf.den > callerOpt.min_het_vf.num * SiteDepth

NoBaseQualifies == ~siteLocus.isForcedOutput /\ \A b \in Bases : ~PassesVf(b)

IsScenarioSite ==
    /\ \A b \in Bases : SiteCount(b) = ScenarioCounts[b]
    /\ siteLocus.spanning_deletions = 0
    /\ siteLocus.ref = 0
    /\ ~siteLocus.isForcedOutput

RECURSIVE MaxGqx(_)
MaxGqx(alleles) ==
    IF alleles = <<>> THEN 0 ELSE Max(Head(alleles).gqx, MaxGqx(Tail(alleles)))

\* C8: after position_snp_call_continuous a base has an allele record iff its
\* variant fraction (count / total depth, spanning deletions in the depth) is
\* strictly above min_het_vf or output is forced, the reference base also when
\* no base qualifies; the list is never empty; every record carries the
\* quality score of its base; at depth 100, ref 90, alt 10 the alt base is
\* reported with threshold 0.05 and only the reference with threshold 0.2.
C8_SnpReportability ==
    sitePc = "called" =>
       /\ \A b \in Bases :
             Reported(b) <=> \/ PassesVf(b)
                             \/ siteLocus.isForcedOutput
                             \/ NoBaseQualifies /\ b = siteLocus.ref
       /\ siteLocus.altAlleles # <<>>
       /\ \A i \in 1 .. Len(siteLocus.altAlleles) :
             LET allele == siteLocus.altAlleles[i]
             IN  /\ allele.alleleDepth = SiteCount(allele.base)
                 /\ allele.totalDepth = SiteDepth
                 /\ allele.gqx = poisson_qscore(SiteCount(allele.base), SiteDepth,
                                                callerOpt.min_qscore, MaxQScore)
       /\ IsScenarioSite /\ callerOpt.min_het_vf = [num |-> 1, den |-> 20]
             => Reported(1) /\ Reported(0) /\ ~Reported(2) /\ ~Reported(3)
       /\ IsScenarioSite /\ callerOpt.min_het_vf = [num |-> 1, den |-> 5]
             => \A b \in Bases : Reported(b) <=> b = siteLocus.ref

\* no base passes the threshold of a covered site and the reference is emitted
C8_Witness ==
    /\ sitePc = "called"
    /\ NoBaseQualifies
    /\ SiteDepth > 1
    /\ siteLocus.altAlleles # <<>>
    /\ \A b \in Bases : Reported(b) <=> b = siteLocus.ref

\* C9: after position_snp_call_continuous the locus quality
\* anyVariantAlleleQuality is the maximum of the quality scores of the
\* reported alleles (0 if there is none).
C9_LocusQualityIsMax ==
    sitePc = "called" => siteLocus.anyVariantAlleleQuality = MaxGqx(siteLocus.altAlleles)

-----------------------------------------------------------------------------
(* The indel locus, read back *)

SoleAlleleVf(num, den) ==
    /\ Len(indelLocus.altAlleles) = 1
    /\ indelLocus.altAlleles[1].totalDepth > 0
    /\ indelLocus.altAlleles[1].alleleDepth * den = num * indelLocus.altAlleles[1].totalDepth

\* frequency of the first allele < 1 - min_het_vf, an allele without reads having frequency 0
FrontBelowHom ==
    LET allele == indelLocus.altAlleles[1]
        thr    == callerOpt.min_het_vf
    IN  IF allele.totalDepth = 0 THEN thr.num < thr.den
        ELSE allele.alleleDepth * thr.den < (thr.den - thr.num) * allele.totalDepth

HetRule ==
    /\ indelLocus.altAlleles # <<>> =>
          (indelLocus.is_het <=> Len(indelLocus.altAlleles) > 1 \/ FrontBelowHom)
    /\ indelLocus.altAlleles = <<>> => ~indelLocus.is_het

HighThreshold == callerOpt.min_het_vf = [num |-> 4, den |-> 5]

\* C10: after add_indel_call the locus is heterozygous iff more than one allele
\* is in the list or the sole allele's variant frequency is below
\* 1 - min_het_vf; with threshold 0.8 a single allele of frequency 0.97 is not
\* heterozygous, and a single allele of frequency 0.5 is not heterozygous
\* either (0.5 is not below 0.2).
C10_IndelHeterozygosity ==
    indelCallCount > 0 =>
       /\ HetRule
       /\ HighThreshold /\ SoleAlleleVf(97, 100) => ~indelLocus.is_het
       /\ HighThreshold /\ SoleAlleleVf(1, 2) => ~indelLocus.is_het

\* a single allele of frequency 0.5 under threshold 0.8, not heterozygous
C10_Witness ==
    /\ indelCallCount > 0
    /\ HighThreshold
    /\ SoleAlleleVf(1, 2)
    /\ ~indelLocus.is_het

\* C10 as stated: with threshold 0.8 a single allele of frequency 0.97 is not
\* heterozygous and a single allele of frequency 0.5 is heterozygous.
C10_AsStated ==
    indelCallCount > 0 =>
       /\ HetRule
       /\ HighThreshold /\ SoleAlleleVf(97, 100) => ~indelLocus.is_het
       /\ HighThreshold /\ SoleAlleleVf(1, 2) => indelLocus.is_het

-----------------------------------------------------------------------------
(* Strand bias, read back *)

\* a > b for two likelihood-ratio values, NaN comparing false
LogGreater(a, b) ==
    /\ a.kind = "finite"
    /\ b.kind = "finite"
    /\ a.micro > b.micro

\* C11: strand_bias of an alt allele entirely on one strand,
\* strand_bias(10, 0, 0, 10), is larger than strand_bias of a balanced one,
\* strand_bias(5, 5, 5, 5).
C11_OneStrandLarger ==
    callPc = "returned" /\ callArgs = OneStrandTally =>
       LogGreater(callResult,
                  strand_bias(BalancedTally[1], BalancedTally[2], BalancedTally[3], BalancedTally[4]))

-----------------------------------------------------------------------------
(* The significance score, read back *)

CallPValue == AssignPValue(callArgs[1], callArgs[2], callArgs[3])

\* C12: poisson_qscore never returns more than maxQScore; for an observed
\* count of 0 the p-value is 1.0 and the result is its score, phred 0, not the
\* cap; for an observed count above 0 whose p-value is <= 0 the result is
\* exactly maxQScore.
C12_QscoreCapAndEdges ==
    callPc = "returned" =>
       /\ callResult <= callArgs[4]
       /\ callResult >= 0
       /\ callArgs[1] = 0 => CallPValue = PValueOne /\ callResult = 0 /\ callResult < callArgs[4]
       /\ callArgs[1] > 0 /\ CallPValue.kind = "zero" => callResult = callArgs[4]
       /\ callArgs[1] > 0 /\ CallPValue.kind = "positive" =>
             callResult = Min(callArgs[4], (CallPValue.mdb + 500) \div 1000)

\* a call whose p-value underflows has returned the cap
C12_Witness ==
    /\ callPc = "returned"
    /\ callArgs[1] > 0
    /\ CallPValue.kind = "zero"
    /\ callResult = callArgs[4]

-----------------------------------------------------------------------------
(* The rate query, read back *)

\* the table the query selected
QueriedRates ==
    IF rateQuery.isCandidateRates THEN indelModel.candidateErrorRates ELSE indelModel.errorRates

AtLeastOne(n) == IF n < 1 THEN 1 ELSE n

OppositeDirection(indelType) ==
    CASE indelType = "INSERT" -> "DELETE" [] indelType = "DELETE" -> "INSERT"

\* C13: getIndelErrorRate for a simple indel returns refToIndelProb = the rate
\* of the selected table (candidate iff isCandidateRates) at
\* (max(repeatUnitLength, 1), max(refRepeatCount, 1), the indel's direction)
\* and indelToRefProb = its rate at (max(repeatUnitLength, 1),
\* max(indelRepeatCount, 1), the opposite direction).
C13_SimpleIndelRates ==
    rateQuery.status = "returned" /\ rateQuery.indelType \in {"INSERT", "DELETE"} =>
       LET info == rateQuery.indelReportInfo
           size == AtLeastOne(info.repeatUnitLength)
           ref  == AtLeastOne(info.refRepeatCount)
           alt  == AtLeastOne(info.indelRepeatCount)
           back == OppositeDirection(rateQuery.indelType)
       IN  /\ rateQuery.reads = <<<<size, ref, rateQuery.indelType>>, <<size, alt, back>>>>
           /\ rateQuery.refToIndelErrorProb = getRate(QueriedRates, size, ref, rateQuery.indelType)
           /\ rateQuery.indelToRefErrorProb = getRate(QueriedRates, size, alt, back)

\* a deletion in a dinucleotide repeat asked of the main table of a model file
C13_Witness ==
    /\ rateQuery.status = "returned"
    /\ rateQuery.indelType = "DELETE"
    /\ ~rateQuery.isCandidateRates
    /\ modelArgs.modelFilename # ""
    /\ rateQuery.indelReportInfo.repeatUnitLength = 2
    /\ rateQuery.indelReportInfo.refRepeatCount = 2
    /\ rateQuery.indelReportInfo.indelRepeatCount = 0
    /\ rateQuery.refToIndelErrorProb # rateQuery.indelToRefErrorProb

\* C14: getIndelErrorRate for a complex indel returns refToIndelProb =
\* indelToRefProb = max(rate(1, 1, INSERT), rate(1, 1, DELETE)) of the selected
\* table, whatever the repeat context of the report info.
C14_ComplexIndelRates ==
    rateQuery.status = "returned" /\ rateQuery.indelType \notin {"INSERT", "DELETE"} =>
       LET ins == getRate(QueriedRates, 1, 1, "INSERT")
           del == getRate(QueriedRates, 1, 1, "DELETE")
       IN  /\ rateQuery.reads = <<<<1, 1, "INSERT">>, <<1, 1, "DELETE">>>>
           /\ rateQuery.refToIndelErrorProb = IF ins < del THEN del ELSE ins
           /\ rateQuery.indelToRefErrorProb = rateQuery.refToIndelErrorProb

\* a complex indel in a long repeat asked of the candidate table
C14_Witness ==
    /\ rateQuery.status = "returned"
    /\ rateQuery.indelType = "OTHER"
    /\ rateQuery.isCandidateRates
    /\ rateQuery.indelReportInfo.repeatUnitLength = 1
    /\ rateQuery.indelReportInfo.refRepeatCount = 17
    /\ rateQuery.refToIndelErrorProb = LogLinearParams.logLowErrorRate

-----------------------------------------------------------------------------
(* The constructed model, read back *)

FailedNaming(name) ==
    /\ indelModel.status = "failed"
    /\ indelModel.error.kind # "none"
    /\ indelModel.error.names = name
    /\ indelModel.errorRates = EmptyRateSet
    /\ indelModel.candidateErrorRates = EmptyRateSet
    /\ rateQuery.status = "none"

UnknownBuiltIn ==
    modelArgs.modelFilename = "" /\ modelArgs.modelName \notin {"logLinear", "adaptiveDefault"}

UnparsedFile ==
    modelArgs.modelFilename # "" /\ modelArgs.file.kind \in {"missing", "malformed"}

FileWithoutMotifs ==
    modelArgs.modelFilename # "" /\ modelArgs.file.kind = "noMotifs"

\* C16: the construction of IndelErrorModel fails, leaving no usable model,
\* for an empty filename with a model name other than 'logLinear' and
\* 'adaptiveDefault' (the message names the model), for a file that does not
\* parse and for a parsed file without 'motifs' (the message names the file);
\* in every other case it succeeds with the main table finalized and a
\* finalized log-linear candidate table.
C16_ConstructionFaults ==
    indelModel.status # "none" =>
       /\ UnknownBuiltIn => FailedNaming(modelArgs.modelName)
       /\ UnparsedFile => FailedNaming(modelArgs.modelFilename)
       /\ FileWithoutMotifs => FailedNaming(modelArgs.modelFilename)
       /\ ~(UnknownBuiltIn \/ UnparsedFile \/ FileWithoutMotifs) =>
             /\ indelModel.status = "constructed"
             /\ indelModel.error = NoError
             /\ indelModel.errorRates.finalized
             /\ indelModel.candidateErrorRates.finalized
             /\ DOMAIN indelModel.candidateErrorRates.rates = {<<1, n>> : n \in 1 .. 16}
             /\ \A n \in 1 .. 16 :
                   indelModel.candidateErrorRates.rates[<<1, n>>].INSERT = LogLinearRate(n)

\* the construction from a model name that is not built in has failed
C16_Witness ==
    /\ UnknownBuiltIn
    /\ FailedNaming(modelArgs.modelName)

-----------------------------------------------------------------------------
(* The adaptive error rate, read back *)

Distance(a, b) == IF a < b THEN b - a ELSE a - b

Between(x, a, b) == (a <= x /\ x <= b) \/ (b <= x /\ x <= a)

\* the rates of the built-in log-linear table, by repeat count
LogLinearTableRate(n) == getLogLinearIndelErrorModel.rates[<<1, n>>].INSERT

\* C15: errorRate of the adaptive model, for a repeat count >= 2, moves
\* monotonically from the low-anchor rate towards the high-anchor rate as the
\* repeat count grows, never away from the high-anchor rate, and equals the
\* high-anchor rate exactly at and beyond the switch point; the built-in
\* log-linear table ramps from the low rate at repeat count 1 to the high rate
\* at repeat count 16.
C15_AdaptiveRamp ==
    callPc = "returned" =>
       LET model == callArgs[1]
           n     == callArgs[2]
           next  == errorRate(model, n + 1)
           low   == model.lowLogErrorRate
           high  == model.highLogErrorRate
       IN  /\ n >= model.highRepeatCount => callResult = high
           /\ Between(callResult, low, high)
           /\ Distance(next, high) <= Distance(callResult, high)
           /\ low <= high => callResult <= next
           /\ low >= high => callResult >= next
           /\ low # high /\ n < model.highRepeatCount => callResult # next
           /\ LogLinearTableRate(1) = LogLinearParams.logLowErrorRate
           /\ LogLinearTableRate(16) = LogLinearParams.logHighErrorRate
           /\ \A k \in 1 .. 15 : LogLinearTableRate(k) < LogLinearTableRate(k + 1)

\* a rate strictly inside the ramp of a model whose high anchor is at 16
C15_Witness ==
    /\ callPc = "returned"
    /\ callArgs[1].highRepeatCount = 16
    /\ callArgs[2] = 9
    /\ callArgs[1].lowLogErrorRate < callResult
    /\ callResult < callArgs[1].highLogErrorRate

-----------------------------------------------------------------------------
(* C17 *)

\* the set filters in the order of their ids
RECURSIVE FiltersInOrder(_, _)
FiltersInOrder(bits, i) ==
    IF i >= SIZE THEN <<>>
    ELSE (IF i \in bits THEN <<i>> ELSE <<>>) \o FiltersInOrder(bits, i + 1)

\* out is the labels of the filters of ids, one ";" between two of them
JoinedLabels(out, ids) ==
    /\ Len(out) = 2 * Len(ids) - 1
    /\ \A k \in 1 .. Len(ids) : out[2 * k - 1] = get_label(ids[k])
    /\ \A k \in 1 .. (Len(ids) - 1) : out[2 * k] = ";"

\* C17: set(i) on a filter that is set fails the assertion 'Setting filter
\* twice'; set(i) on a filter that is not set fails no assertion and sets it;
\* clear() leaves every filter unset, so that each can be set again; write()
\* emits "PASS" if and only if no filter is set, and otherwise the labels of
\* exactly the set filters with ";" between them.
C17_FilterKeeper ==
    /\ (filterOp.kind = "set" /\ filterOp.wasSet) => filterFault = SettingTwice
    /\ (filterOp.kind = "set" /\ ~filterOp.wasSet) =>
          (filterFault = NoFault /\ filterOp.i \in filters)
    /\ filterOp.kind = "clear" => (filters = {} /\ filterFault = NoFault)
    /\ filterOp.kind = "write" =>
          /\ (os = <<"PASS">>) <=> (filters = {})
          /\ filters # {} => JoinedLabels(os, FiltersInOrder(filters, 0))

\* a filter removed by clear() is set again with another one, and both are written
C17_Witness ==
    /\ filterOp.kind = "write"
    /\ cleared \in filters
    /\ Cardinality(filters) = 2
    /\ Len(os) = 3
    /\ filterFault = NoFault

-----------------------------------------------------------------------------
(* C18 *)

\* C18: after position_snp_call_continuous on a locus whose _is_snp was false,
\* the locus is flagged as a SNP if and only if some reported allele differs
\* from the reference base, an allele reported only because output is forced
\* included.
C18_SnpFlag ==
    sitePc = "called" =>
       (siteLocus._is_snp <=> \E b \in Bases : Reported(b) /\ b # siteLocus.ref)

-----------------------------------------------------------------------------
(* C19 *)

SkipCounters == {"excludedRegionSkipped", "depthSkipped", "emptySkipped", "noiseSkipped"}

SkipOperations ==
    {"addExcludedRegionSkip", "addDepthSkip", "addEmptySkip", "addNoiseSkip"}

\* the counter an operation is named after
CounterOf(op) ==
    CASE op = "addExcludedRegionSkip" -> "excludedRegionSkipped"
      [] op = "addDepthSkip" -> "depthSkipped"
      [] op = "addEmptySkip" -> "emptySkipped"
      [] op = "addNoiseSkip" -> "noiseSkipped"

\* the data of context c in aggregator a, all zero for a context not seen
ContextData(a, c) == IF c \in DOMAIN a THEN a[c] ELSE EmptyErrorData

\* C19: each of addExcludedRegionSkip, addDepthSkip, addEmptySkip and
\* addNoiseSkip raises the counter it is named after, in the context it is
\* given, by exactly 1; it leaves the pattern table, the reference-quality
\* totals and the three other counters of that context, every other context
\* and every other aggregator as they were, creating at most the entry of the
\* context it is given.  addSiteObservation changes no skip counter.
C19_SkipAdditive ==
    [][/\ lastOp' \in SkipOperations =>
            \E p \in Workers, c \in Contexts :
               /\ ContextData(agg'[p], c)[CounterOf(lastOp')]
                     = ContextData(agg[p], c)[CounterOf(lastOp')] + 1
               /\ \A n \in SkipCounters \ {CounterOf(lastOp')} :
                     ContextData(agg'[p], c)[n] = ContextData(agg[p], c)[n]
               /\ ContextData(agg'[p], c).counts = ContextData(agg[p], c).counts
               /\ DOMAIN agg'[p] = DOMAIN agg[p] \cup {c}
               /\ \A d \in DOMAIN agg[p] \ {c} : agg'[p][d] = agg[p][d]
               /\ \A r \in Partitions \ {p} : agg'[r] = agg[r]
       /\ lastOp' = "addSiteObservation" =>
            \A p \in Workers, c \in Contexts, n \in SkipCounters :
               ContextData(agg'[p], c)[n] = ContextData(agg[p], c)[n]]_vars

\* a skip recorded in a context that holds a pattern, next to a second context
\* of the same aggregator
C19_Witness ==
    /\ lastOp \in SkipOperations
    /\ \E p \in Workers, c \in Contexts :
          /\ DOMAIN agg[p] = Contexts
          /\ agg[p][c][CounterOf(lastOp)] = 1
          /\ agg[p][c].counts.data # EmptyMap

-----------------------------------------------------------------------------
(* C20 *)

\* the records of base b in the allele list
RecordsOf(b) ==
    Cardinality({i \in 1 .. Len(siteLocus.altAlleles) : siteLocus.altAlleles[i].base = b})

\* C20: after position_snp_call_continuous the allele list holds exactly one
\* record for every reportable base and none for the others, whatever the
\* number of samples of the locus; when no base passes the threshold and
\* output is not forced, the list is the forced reference record, once.
C20_OneRecordPerBase ==
    sitePc = "called" =>
       /\ \A b \in Bases : RecordsOf(b) = IF Reported(b) THEN 1 ELSE 0
       /\ NoBaseQualifies =>
             /\ Len(siteLocus.altAlleles) = 1
             /\ siteLocus.altAlleles[1].base = siteLocus.ref

=============================================================================
